---- MODULE Spec2Model ----
(***************************************************************************)
(* A model of the tree-walking Lox interpreter of loxrustlib               *)
(* (src/loxrustlib/src/interpreter.rs, environment.rs, funcs/loxfunc.rs).  *)
(*                                                                         *)
(* The interpreter is a recursive evaluator, so every Rust method becomes  *)
(* a recursive operator that takes the interpreter state `st` and returns  *)
(* a record [st |-> state after, out |-> Outcome].  One TLA+ action,       *)
(* Interpret, is one call of Interpreter::interpret on the same            *)
(* interpreter object (the REPL use of the library).                       *)
(*                                                                         *)
(* The fields of `st` below the line "history" are history variables: they *)
(* record what the evaluator did (which names it read, which chain a block *)
(* or a call ran in) and are never read by the evaluator itself.           *)
(***************************************************************************)
EXTENDS Integers, Sequences, FiniteSets, TLC

\* ------------------------------------------------------------------ bounds
MaxSteps     == 2     \* calls of interpret on one interpreter object
MaxCallDepth == 3     \* nested user-function calls explored
MaxLoop      == 3     \* iterations of one while loop explored

\* ------------------------------------------------------------------ values
\* The interpreter reuses the literal variants of Expression as run-time
\* values.  NoneV is Rust's Option::None (a declared, uninitialised variable
\* or a failed lookup); it is not a Lox value.
LiteralNumber(n)  == [k |-> "LiteralNumber",  n |-> n, s |-> "", b |-> FALSE]
LiteralString(s)  == [k |-> "LiteralString",  n |-> 0, s |-> s,  b |-> FALSE]
LiteralBoolean(b) == [k |-> "LiteralBoolean", n |-> 0, s |-> "", b |-> b]
Nil               == [k |-> "Nil",            n |-> 0, s |-> "", b |-> FALSE]
NoneV             == [k |-> "None",           n |-> 0, s |-> "", b |-> FALSE]

\* impl Display for Expression (the literal variants)
Display(v) ==
    CASE v.k = "LiteralNumber"  -> ToString(v.n)
      [] v.k = "LiteralBoolean" -> (IF v.b THEN "true" ELSE "false")
      [] v.k = "LiteralString"  -> v.s
      [] OTHER                  -> "nil"

\* -------------------------------------------------------------- expressions
Identifier(id, name)        == [k |-> "Identifier", id |-> id, name |-> name]
Assignment(id, name, e)     == [k |-> "Assignment", id |-> id, name |-> name, e |-> e]
Binary(l, op, r)            == [k |-> "Binary", l |-> l, op |-> op, r |-> r]
Unary(op, r)                == [k |-> "Unary", op |-> op, r |-> r]
Comma(es)                   == [k |-> "Comma", es |-> es]
Grouping(e)                 == [k |-> "Grouping", e |-> e]
Logical(l, op, r)           == [k |-> "Logical", l |-> l, op |-> op, r |-> r]
Call(callee, args)          == [k |-> "Call", callee |-> callee, args |-> args]

\* --------------------------------------------------------------- statements
ExpressionStatement(e)      == [k |-> "ExpressionStatement", e |-> e]
PrintStatement(e)           == [k |-> "PrintStatement", e |-> e]
VariableDeclaration(name, hasInit, e) ==
    [k |-> "VariableDeclaration", name |-> name, hasInit |-> hasInit, e |-> e]
BlockStatement(ss)          == [k |-> "BlockStatement", ss |-> ss]
IfStatement(c, t, hasElse, el) ==
    [k |-> "IfStatement", c |-> c, t |-> t, hasElse |-> hasElse, el |-> el]
WhileStatement(c, body)     == [k |-> "WhileStatement", c |-> c, body |-> body]
FunDeclaration(name, parameters, body) ==
    [k |-> "FunDeclaration", name |-> name, parameters |-> parameters, body |-> body]
ReturnStatement(e)          == [k |-> "ReturnStatement", e |-> e]

\* ----------------------------------------------------------------- outcomes
\* Outcome<T> = Result<T, BreakReason>.  Panicked is a Rust panic (the
\* process aborts); Diverged marks an execution that leaves the explored
\* bounds (MaxCallDepth, MaxLoop).
Ok(v)          == [kind |-> "Ok",       val |-> v,   msg |-> "", arg |-> ""]
Returned(v)    == [kind |-> "Returned", val |-> v,   msg |-> "", arg |-> ""]
Errored(m, a)  == [kind |-> "Errored",  val |-> Nil, msg |-> m,  arg |-> a]
Panicked       == [kind |-> "Panicked", val |-> Nil, msg |-> "panic", arg |-> ""]
Diverged       == [kind |-> "Diverged", val |-> Nil, msg |-> "", arg |-> ""]

Res(st, out)   == [st |-> st, out |-> out]

\* -------------------------------------------------------------- environment
\* struct Environment: one frame.  Frames live in st.heap and are named by
\* their index (an Rc<RefCell<Environment>> is a frame id); parent = 0 is
\* Option::None.  `variables` maps a name to a value or to NoneV.
NoEnv == 0

EnvironmentNew(parent) ==
    [parent |-> parent, variables |-> <<>>, callables |-> <<>>]

\* the callable stored for the built-in `clock` and for a user function;
\* declScope is a history field: the scope in which the declaration ran
ClockFunc ==
    [kind |-> "clock", name |-> "clock", parameters |-> <<>>, body |-> <<>>,
     parent_env |-> <<>>, declScope |-> 0]
LoxDefinedFunction(name, parameters, body, parent_env, declScope) ==
    [kind |-> "lox", name |-> name, parameters |-> parameters, body |-> body,
     parent_env |-> parent_env, declScope |-> declScope]
NoCallable ==
    [kind |-> "none", name |-> "", parameters |-> <<>>, body |-> <<>>,
     parent_env |-> <<>>, declScope |-> 0]

Put(f, key, val) == [x \in (DOMAIN f) \cup {key} |-> IF x = key THEN val ELSE f[x]]

RECURSIVE env_get_callable(_, _, _)
env_get_callable(heap, env, name) ==
    IF name \in DOMAIN heap[env].callables
    THEN heap[env].callables[name]
    ELSE IF heap[env].parent = NoEnv THEN NoCallable
         ELSE env_get_callable(heap, heap[env].parent, name)

env_define_callable(heap, env, name, callable) ==
    [heap EXCEPT ![env].callables = Put(@, name, callable)]

env_define(heap, env, name, value) ==
    [heap EXCEPT ![env].variables = Put(@, name, value)]

RECURSIVE env_get(_, _, _)
env_get(heap, env, name) ==
    IF name \in DOMAIN heap[env].variables
    THEN heap[env].variables[name]
    ELSE IF heap[env].parent = NoEnv THEN NoneV
         ELSE env_get(heap, heap[env].parent, name)

\* Environment::assign returns the new heap and whether it succeeded
RECURSIVE env_assign(_, _, _, _)
env_assign(heap, env, name, value) ==
    IF name \in DOMAIN heap[env].variables
    THEN [heap |-> [heap EXCEPT ![env].variables[name] = value], ok |-> TRUE]
    ELSE IF heap[env].parent = NoEnv THEN [heap |-> heap, ok |-> FALSE]
         ELSE env_assign(heap, heap[env].parent, name, value)

\* called by the interpreter, not defined in environment.rs
has_declared_variable(heap, env, name) ==
    name \in DOMAIN heap[env].variables

\* -------------------------------------------------------- interpreter state
\* struct Interpreter { environments, locals } plus the frames the Rc handles
\* point to (heap) and standard output (printed).  environments[1] is the
\* front of the LinkedList (the current frame); the last element is the back
\* (the globals).
Undeclared == [k |-> "Undeclared", n |-> 0, s |-> "", b |-> FALSE]

Locals(st, id) == IF id \in DOMAIN st.locals THEN st.locals[id] ELSE 0

\* the binding of `name` in every frame of the current chain, front first
Bindings(st, name) ==
    [i \in 1..Len(st.environments) |->
        IF name \in DOMAIN st.heap[st.environments[i]].variables
        THEN st.heap[st.environments[i]].variables[name]
        ELSE Undeclared]

FnRef(name) == LiteralString("<fn " \o name \o ">")

\* for env in self.environments.iter().rev()[.skip(depth)]: index i runs from
\* the back of the list towards the front
RECURSIVE callable_from(_, _, _)
callable_from(st, ident, i) ==
    IF i < 1 THEN NoCallable
    ELSE LET c == env_get_callable(st.heap, st.environments[i], ident)
         IN  IF c.kind # "none" THEN c ELSE callable_from(st, ident, i - 1)

get_callable(st, ident) == callable_from(st, ident, Len(st.environments))

get_callable_at(st, ident, depth) ==
    callable_from(st, ident, Len(st.environments) - depth)

RECURSIVE variable_from(_, _, _)
variable_from(st, ident, i) ==
    IF i < 1 THEN NoneV
    ELSE LET v == env_get(st.heap, st.environments[i], ident)
         IN  IF v # NoneV THEN v ELSE variable_from(st, ident, i - 1)

get_variable(st, ident) == variable_from(st, ident, Len(st.environments))

get_variable_at(st, ident, depth) ==
    variable_from(st, ident, Len(st.environments) - depth)

\* the loop of assign_variable (stop = TRUE: `break` after the first frame
\* that declares ident) and of assign_variable_at (stop = FALSE: no break)
RECURSIVE assign_from(_, _, _, _, _, _)
assign_from(heap, envs, ident, value, i, stop) ==
    IF i < 1 THEN [heap |-> heap, out |-> Ok(Nil)]
    ELSE IF has_declared_variable(heap, envs[i], ident)
         THEN LET a == env_assign(heap, envs[i], ident, value)
              IN  IF ~a.ok
                  THEN [heap |-> heap,
                        out |-> Errored("Could not assign nonexistent identifier", ident)]
                  ELSE IF stop THEN [heap |-> a.heap, out |-> Ok(Nil)]
                       ELSE assign_from(a.heap, envs, ident, value, i - 1, stop)
         ELSE assign_from(heap, envs, ident, value, i - 1, stop)

assign_variable(st, ident, value) ==
    LET a == assign_from(st.heap, st.environments, ident, value,
                         Len(st.environments), TRUE)
    IN  Res([st EXCEPT !.heap = a.heap], a.out)

assign_variable_at(st, ident, value, depth) ==
    LET a == assign_from(st.heap, st.environments, ident, value,
                         Len(st.environments) - depth, FALSE)
    IN  Res([st EXCEPT !.heap = a.heap], a.out)

is_truthy(v) ==
    IF v = Nil THEN FALSE
    ELSE IF v = LiteralBoolean(TRUE) THEN TRUE
    ELSE IF v = LiteralBoolean(FALSE) THEN FALSE
    ELSE TRUE

\* the closures eval_binary_expression passes to numeric_operation/comparison,
\* passed here by name and applied by closure(name, x, y).
\* f64 is modelled by the integers (all literals of the programs below are
\* integral); &str ordering is the rank in StringsInOrder.
StringsInOrder == <<"", "a", "global", "inner">>
StrRank(x) ==
    IF \E i \in 1..Len(StringsInOrder) : StringsInOrder[i] = x
    THEN CHOOSE i \in 1..Len(StringsInOrder) : StringsInOrder[i] = x
    ELSE 0

NumSub(n1, n2) == Ok(LiteralNumber(n1 - n2))
NumAdd(n1, n2) == Ok(LiteralNumber(n1 + n2))
NumMul(n1, n2) == Ok(LiteralNumber(n1 * n2))
NumDiv(n1, n2) == IF n2 = 0 THEN Errored("Division by 0", "")
                  ELSE Ok(LiteralNumber(n1 \div n2))
AnyNe(x, y)  == x # y
\* an `==` closure that holds for every pair of operands
AnyEqAlways(x, y) == TRUE
AnyEq(x, y)  == x = y
NumGe(x, y)  == x >= y
NumLe(x, y)  == x <= y
NumGt(x, y)  == x > y
NumLt(x, y)  == x < y
StrGe(x, y)  == StrRank(x) >= StrRank(y)
StrLe(x, y)  == StrRank(x) <= StrRank(y)
StrGt(x, y)  == StrRank(x) > StrRank(y)
StrLt(x, y)  == StrRank(x) < StrRank(y)
BoolGe(x, y) == x \/ ~y
BoolLe(x, y) == ~x \/ y
BoolGt(x, y) == x /\ ~y
BoolLt(x, y) == ~x /\ y

closure(name, x, y) ==
    CASE name = "NumSub" -> NumSub(x, y)
      [] name = "NumAdd" -> NumAdd(x, y)
      [] name = "NumMul" -> NumMul(x, y)
      [] name = "NumDiv" -> NumDiv(x, y)
      [] name = "AnyNe"  -> AnyNe(x, y)
      [] name = "AnyEq"  -> AnyEq(x, y)
      [] name = "NumGe"  -> NumGe(x, y)
      [] name = "NumLe"  -> NumLe(x, y)
      [] name = "NumGt"  -> NumGt(x, y)
      [] name = "NumLt"  -> NumLt(x, y)
      [] name = "StrGe"  -> StrGe(x, y)
      [] name = "StrLe"  -> StrLe(x, y)
      [] name = "StrGt"  -> StrGt(x, y)
      [] name = "StrLt"  -> StrLt(x, y)
      [] name = "BoolGe" -> BoolGe(x, y)
      [] name = "BoolLe" -> BoolLe(x, y)
      [] name = "BoolGt" -> BoolGt(x, y)
      [] name = "BoolLt" -> BoolLt(x, y)

numeric_operation(left, right, invalid_operands_message, op) ==
    IF left.k # "LiteralNumber" THEN Errored(invalid_operands_message, "")
    ELSE IF right.k # "LiteralNumber" THEN Errored(invalid_operands_message, "")
    ELSE closure(op, left.n, right.n)

comparison(left, right, n, s, b) ==
    CASE left.k = "LiteralNumber" ->
           IF right = Nil THEN Ok(LiteralBoolean(FALSE))
           ELSE IF right.k # "LiteralNumber"
                THEN Errored("Cannot compare unlike types", "")
                ELSE Ok(LiteralBoolean(closure(n, left.n, right.n)))
      [] left.k = "LiteralString" ->
           IF right = Nil THEN Ok(LiteralBoolean(FALSE))
           ELSE IF right.k # "LiteralString"
                THEN Errored("Cannot compare unlike types", "")
                ELSE Ok(LiteralBoolean(closure(s, left.s, right.s)))
      [] left.k = "LiteralBoolean" ->
           IF right = Nil THEN Ok(LiteralBoolean(FALSE))
           ELSE IF right.k # "LiteralBoolean"
                THEN Errored("Cannot compare unlike types", "")
                ELSE Ok(LiteralBoolean(closure(b, left.b, right.b)))
      [] left.k = "Nil" ->
           IF right = Nil THEN Ok(LiteralBoolean(TRUE))
           ELSE Ok(LiteralBoolean(FALSE))
      [] OTHER -> Errored("Invalid expression for comparison", "")

\* the `match operator` of eval_binary_expression, on evaluated operands
binary_operation(l, operator, r) ==
    CASE operator = "-"  ->
           numeric_operation(l, r, "Subtraction requires both operands to be numbers", "NumSub")
      [] operator = "+"  ->
           IF l.k = "LiteralString" THEN Ok(LiteralString(Display(l) \o Display(r)))
           ELSE IF r.k = "LiteralString" THEN Ok(LiteralString(Display(l) \o Display(r)))
           ELSE numeric_operation(l, r, "Addition requires both operands to be numbers", "NumAdd")
      [] operator = "!=" -> comparison(l, r, "AnyNe", "AnyNe", "AnyNe")
      [] operator = ">=" -> comparison(l, r, "NumGe", "StrGe", "BoolGe")
      [] operator = "<=" -> comparison(l, r, "NumLe", "StrLe", "BoolLe")
      [] operator = "==" -> comparison(l, r, "AnyEq", "AnyEq", "AnyEq")
      [] operator = ">"  -> comparison(l, r, "NumGt", "StrGt", "BoolGt")
      [] operator = "<"  -> comparison(l, r, "NumLt", "StrLt", "BoolLt")
      [] operator = "*"  ->
           numeric_operation(l, r, "Multiplication requires both operands to be numbers", "NumMul")
      [] operator = "/"  ->
           numeric_operation(l, r, "Division requires both operands to be numbers", "NumDiv")

\* ------------------------------------------------------------ the evaluator
\* Every method takes the interpreter state st and gives Res(st', outcome).
\* Where the source binds a result and goes on (`let v = self.evaluate(e)?;`),
\* the rest of the method is an operator of its own that takes that result.
RECURSIVE execute(_, _)
RECURSIVE evaluate(_, _)

\* `for stmt in statements { self.execute(stmt)?; }`
RECURSIVE exec_statements(_, _, _)
statements_after(r, statements, i) ==
    IF r.out.kind # "Ok" THEN r
    ELSE exec_statements(r.st, statements, i + 1)

exec_statements(st, statements, i) ==
    IF i > Len(statements) THEN Res(st, Ok(Nil))
    ELSE statements_after(execute(st, statements[i]), statements, i)

\* history: where the frame that holds the running function (the front of
\* its captured chain) stands in the current chain; 0 outside a call
DefPos(st) ==
    IF st.act > 0 /\ Len(st.fn.parent_env) > 0
       /\ \E i \in 1..Len(st.environments) : st.environments[i] = st.fn.parent_env[1]
    THEN CHOOSE i \in 1..Len(st.environments) :
            /\ st.environments[i] = st.fn.parent_env[1]
            /\ \A j \in 1..(i - 1) : st.environments[j] # st.fn.parent_env[1]
    ELSE 0

\* history: one read of an identifier
LogRead(st, name, depth, isCallable, out) ==
    Res([st EXCEPT !.reads = Append(@,
            [name |-> name, out |-> out, bindings |-> Bindings(st, name),
             isCallable |-> isCallable,
             depth |-> depth, act |-> st.act,
             defPos |-> DefPos(st),
             declExited |-> st.act > 0 /\ st.fn.declScope \notin st.active])],
        out)

\* `match self.get_variable(identifier) { Some(v) => Ok(v), None => Err(..) }`
found_variable(v, name) ==
    IF v = NoneV THEN Errored("Use of undefined variable", name)
    ELSE Ok(v)

eval_identifier(st, name) ==
    LogRead(st, name, 0, get_callable(st, name).kind # "none",
            IF get_callable(st, name).kind # "none" THEN Ok(FnRef(name))
            ELSE found_variable(get_variable(st, name), name))

eval_identifier_at(st, name, depth) ==
    LogRead(st, name, depth, get_callable_at(st, name, depth).kind # "none",
            IF get_callable_at(st, name, depth).kind # "none" THEN Ok(FnRef(name))
            ELSE found_variable(get_variable_at(st, name, depth), name))

\* every binding of a name other than `name`, in every frame of the chain of
\* st0, is in heap1 what it is in st0, and no frame has gained or lost a name
OthersKept(st0, heap1, name) ==
    \A i \in 1..Len(st0.environments) :
        LET e == st0.environments[i]
        IN  /\ DOMAIN heap1[e].variables = DOMAIN st0.heap[e].variables
            /\ \A n \in DOMAIN st0.heap[e].variables \ {name} :
                   heap1[e].variables[n] = st0.heap[e].variables[n]

\* history: one assignment, a being the result of assign_variable[_at]
LogAssign(st0, a, name, depth, value) ==
    Res([a.st EXCEPT !.assigns = Append(@,
            [name |-> name, depth |-> depth, value |-> value, out |-> a.out,
             act |-> st0.act,
             othersKept |-> OthersKept(st0, a.st.heap, name),
             before |-> Bindings(st0, name),
             after |-> Bindings([st0 EXCEPT !.heap = a.st.heap], name),
             defPos |-> DefPos(st0),
             declExited |-> st0.act > 0 /\ st0.fn.declScope \notin st0.active])],
        a.out)

\* `self.assign_variable(..)?; Ok(value)`
assigned(a, value) ==
    IF a.out.kind # "Ok" THEN a ELSE Res(a.st, Ok(value))

assign_value(v, name) ==
    IF v.out.kind # "Ok" THEN v
    ELSE LogAssign(v.st, assigned(assign_variable(v.st, name, v.out.val), v.out.val),
                   name, 0, v.out.val)

eval_assignment_expression(st, name, expression) ==
    assign_value(evaluate(st, expression), name)

assign_value_at(v, name, depth) ==
    IF v.out.kind # "Ok" THEN v
    ELSE LogAssign(v.st,
                   assigned(assign_variable_at(v.st, name, v.out.val, depth), v.out.val),
                   name, depth, v.out.val)

eval_assignment_expression_at(st, name, depth, expression) ==
    assign_value_at(evaluate(st, expression), name, depth)

\* history: one binary operation on evaluated operands
LogBinary(st, l, operator, r, out) ==
    Res([st EXCEPT !.binops = Append(@,
            [l |-> l, op |-> operator, r |-> r, out |-> out])],
        out)

binary_result(l, operator, r) ==
    IF r.out.kind # "Ok" THEN r
    ELSE LogBinary(r.st, l, operator, r.out.val,
                   binary_operation(l, operator, r.out.val))

binary_right(l, operator, right) ==
    IF l.out.kind # "Ok" THEN l
    ELSE binary_result(l.out.val, operator, evaluate(l.st, right))

eval_binary_expression(st, left, operator, right) ==
    binary_right(evaluate(st, left), operator, right)

unary_result(operator, r) ==
    IF r.out.kind # "Ok" THEN r
    ELSE IF operator = "-"
         THEN IF r.out.val.k # "LiteralNumber"
              THEN Res(r.st, Errored("Only a number can be negated this way", ""))
              ELSE Res(r.st, Ok(LiteralNumber(0 - r.out.val.n)))
         ELSE Res(r.st, Ok(LiteralBoolean(~is_truthy(r.out.val))))

eval_unary_expression(st, operator, right) ==
    unary_result(operator, evaluate(st, right))

\* history: one logical expression; l is the result of the left operand, r
\* the result of the whole, `right` holds the outcome of the right operand if
\* it was evaluated
LogLogical(l, operator, evaluated, r) ==
    Res([r.st EXCEPT !.logicals = Append(@,
            [op |-> operator, l |-> l.out.val,
             right |-> IF evaluated THEN <<r.out>> ELSE <<>>,
             out |-> r.out,
             assignsLeft |-> Len(l.st.assigns),
             assigns |-> Len(r.st.assigns)])],
        r.out)

\* a logical expression that returns at neither of the two tests
returns_left_result_never(operator, left_result) == FALSE

\* the two tests of eval_logical_expression that `return Ok(left_result)`
returns_left_result(operator, left_result) ==
    \/ operator = "or" /\ is_truthy(left_result)
    \/ operator = "and" /\ ~is_truthy(left_result)

logical_right(l, operator, right) ==
    IF l.out.kind # "Ok" THEN l
    ELSE IF returns_left_result(operator, l.out.val)
    THEN LogLogical(l, operator, FALSE, l)
    ELSE LogLogical(l, operator, TRUE, evaluate(l.st, right))

eval_logical_expression(st, left, operator, right) ==
    logical_right(evaluate(st, left), operator, right)

\* expressions.iter().rev().for_each(|expr| last_result = Some(evaluate(expr)))
\* every expression is evaluated, the last one first; a panic aborts the loop
\* history: one comma expression; evaluated lists, in the order in which they
\* were evaluated, the position of each expression and what it gave
LogComma(st, expressions, evaluated, result) ==
    Res([st EXCEPT !.commas = Append(@,
            [n |-> Len(expressions), evaluated |-> evaluated, out |-> result])],
        result)

RECURSIVE comma_loop(_, _, _, _, _)
comma_next(r, expressions, i, evaluated) ==
    IF r.out.kind \in {"Panicked", "Diverged"} THEN r
    ELSE comma_loop(r.st, expressions, i - 1, r.out,
                    Append(evaluated, [i |-> i, out |-> r.out]))

comma_loop(st, expressions, i, last_result, evaluated) ==
    IF i < 1 THEN LogComma(st, expressions, evaluated, last_result)
    ELSE comma_next(evaluate(st, expressions[i]), expressions, i, evaluated)

eval_comma_expression(st, expressions) ==
    IF Len(expressions) = 0
    THEN Res(st, Errored("Cannot have an empty comma statement", ""))
    ELSE comma_loop(st, expressions, Len(expressions), Ok(Nil), <<>>)

\* arguments.iter().map(|a| self.evaluate(a)).collect::<Result<Vec<_>, _>>()?
\* left to right, stopping at the first argument that does not evaluate
RECURSIVE eval_arguments(_, _, _, _)
argument_collected(r, arguments, i, x) ==
    IF r.out.kind # "Ok" THEN [st |-> r.st, out |-> r.out, x |-> x]
    ELSE eval_arguments(r.st, arguments, i + 1, Append(x, r.out.val))

eval_arguments(st, arguments, i, x) ==
    IF i > Len(arguments) THEN [st |-> st, out |-> Ok(Nil), x |-> x]
    ELSE argument_collected(evaluate(st, arguments[i]), arguments, i, x)

\* `let old_env = mem::take(&mut self.environments); self.environments =
\* environment;` with the history of the body: the chain it starts in and
\* what each parameter name of the running call resolves to there
enter_environment(st, environment) ==
    [st EXCEPT !.environments = environment,
               !.bodies = Append(@,
                  [act |-> st.act, name |-> st.fn.name,
                   parameters |-> st.fn.parameters, args |-> st.args,
                   assigns |-> Len(st.assigns),
                   parent_env |-> st.fn.parent_env,
                   caller_env |-> st.environments,
                   envs |-> environment,
                   frontVars |-> IF Len(environment) = 0 THEN {}
                                 ELSE DOMAIN st.heap[environment[1]].variables,
                   lookup |-> [i \in 1..Len(st.fn.parameters) |->
                                 get_variable([st EXCEPT !.environments = environment],
                                              st.fn.parameters[i])]])]

\* `self.execute(stmt)?` leaves the method at once; only after the loop
\* `self.environments = old_env; Ok(())`
restore_environment(r, old_env) ==
    IF r.out.kind # "Ok" THEN r
    ELSE Res([r.st EXCEPT !.environments = old_env], Ok(Nil))

execute_block_statement_in_environment(st, statements, environment) ==
    restore_environment(
        exec_statements(enter_environment(st, environment), statements, 1),
        st.environments)

\* the local `env` of LoxDefinedFunction::call: a new Environment in which
\* every parameter is defined; it is never pushed on any chain
RECURSIVE define_parameters(_, _, _, _)
define_parameters(env, parameters, args, i) ==
    IF i > Len(parameters) THEN env
    ELSE define_parameters(
            [env EXCEPT !.variables =
                Put(@, parameters[i], IF i <= Len(args) THEN args[i] ELSE NoneV)],
            parameters, args, i + 1)

LoxDefinedFunction_call(st, c, args) ==
    LET env == define_parameters(EnvironmentNew(NoEnv), c.parameters, args, 1)
    IN  execute_block_statement_in_environment(st, c.body, c.parent_env)

ClockFunc_call(st) == Res(st, Ok(LiteralNumber(st.now)))

arity(c) == IF c.kind = "clock" THEN 0 ELSE Len(c.parameters)

\* a call boundary that lets Returned through (`c.call(self, &x)` returned as is)
match_call_result_propagates(out) == out

\* match c.call(self, &x) { Ok(e) => Ok(e), Err(Returned(r)) => Ok(r),
\*                          Err(Errored(e)) => Err(Errored(e)) }
match_call_result(out) ==
    IF out.kind = "Returned" THEN Ok(out.val) ELSE out

\* history: the call is one activation; the fields act/scope/fn/args describe
\* it while the body runs and are the caller's again afterwards
enter_call(st, c, x) ==
    [st EXCEPT !.act = st.nextScope, !.scope = st.nextScope, !.nextScope = @ + 1,
               !.active = @ \cup {st.nextScope}, !.fn = c, !.args = x,
               !.depth = @ + 1]

leave_call(st, c, r) ==
    Res([r.st EXCEPT !.act = st.act, !.scope = st.scope,
                     !.active = st.active, !.fn = st.fn, !.args = st.args,
                     !.depth = st.depth,
                     !.calls = Append(@,
                        [act |-> st.nextScope, name |-> c.name, kind |-> c.kind,
                         before |-> st.environments,
                         after |-> r.st.environments,
                         body |-> r.out, out |-> match_call_result(r.out)])],
        match_call_result(r.out))

\* c.call(self, &x) and the match on its result
invoke(st, c, x) ==
    IF st.depth >= MaxCallDepth THEN Res(st, Diverged)
    ELSE leave_call(st, c,
            IF c.kind = "clock" THEN ClockFunc_call(enter_call(st, c, x))
            ELSE LoxDefinedFunction_call(enter_call(st, c, x), c, x))

\* history: one call of a callable that was found; st0 is the state before
\* the arity test, x the state and values after the arguments (st0 and <<>>
\* when they were not evaluated), r the result of the call expression
LogCallExpression(st0, c, arguments, x, r) ==
    Res([r.st EXCEPT !.callexprs = Append(@,
            [name |-> c.name, nargs |-> Len(arguments), arity |-> arity(c),
             out |-> r.out, x |-> x.x,
             envs |-> st0.environments, heap |-> st0.heap,
             envsAfter |-> r.st.environments, heapAfter |-> r.st.heap,
             bodies0 |-> Len(st0.bodies), bodiesArgs |-> Len(x.st.bodies),
             bodies1 |-> Len(r.st.bodies),
             assigns0 |-> Len(st0.assigns), assignsArgs |-> Len(x.st.assigns),
             assigns1 |-> Len(r.st.assigns)])],
        r.out)

call_with_arguments(st, x, c, arguments) ==
    IF x.out.kind # "Ok" THEN LogCallExpression(st, c, arguments, x, Res(x.st, x.out))
    ELSE LogCallExpression(st, c, arguments, x, invoke(x.st, c, x.x))

\* a call that does not compare the number of arguments with the arity
arity_differs_ignored(arguments, c) == FALSE

\* if arguments.len() != c.arity()
arity_differs(arguments, c) == Len(arguments) # arity(c)

call_callable(st, c, identifier, arguments) ==
    IF c.kind = "none"
    THEN Res(st, Errored("Call to undefined function", identifier))
    ELSE IF arity_differs(arguments, c)
    THEN LogCallExpression(st, c, arguments, [st |-> st, x |-> <<>>],
            Res(st, Errored("Function requires a different number of arguments",
                            identifier)))
    ELSE call_with_arguments(st, eval_arguments(st, arguments, 1, <<>>), c,
                             arguments)

\* eval_call_expression from `let callable` on
call_identifier(st, identifier, depth, arguments) ==
    call_callable(st,
                  IF depth = 0 THEN get_callable(st, identifier)
                  ELSE get_callable_at(st, identifier, depth),
                  identifier, arguments)

\* history: one call expression, value being what its callee denotes
LogCallee(st0, r, callee, value) ==
    Res([r.st EXCEPT !.callees = Append(@,
            [bare |-> callee.k = "Identifier", value |-> value, out |-> r.out,
             act |-> st0.act])],
        r.out)

call_evaluated(v, callee, arguments) ==
    IF v.out.kind # "Ok" THEN v
    ELSE LogCallee(v.st,
                   IF v.out.val.k # "Identifier"
                   THEN Res(v.st, Errored("Invalid identifier for function call", ""))
                   ELSE call_identifier(v.st, v.out.val.name,
                                        Locals(v.st, v.out.val.id), arguments),
                   callee, v.out.val)

eval_call_expression(st, callee, arguments) ==
    IF callee.k = "Identifier"
    THEN LogCallee(st,
                   call_identifier(st, callee.name, Locals(st, callee.id), arguments),
                   callee,
                   IF get_callable(st, callee.name).kind # "none" THEN NoneV
                   ELSE get_variable(st, callee.name))
    ELSE call_evaluated(evaluate(st, callee), callee, arguments)

evaluate(st, expression) ==
    CASE expression.k = "Assignment" ->
           IF Locals(st, expression.id) = 0
           THEN eval_assignment_expression(st, expression.name, expression.e)
           ELSE eval_assignment_expression_at(st, expression.name,
                    Locals(st, expression.id), expression.e)
      [] expression.k = "Binary" ->
           eval_binary_expression(st, expression.l, expression.op, expression.r)
      [] expression.k = "Unary" ->
           eval_unary_expression(st, expression.op, expression.r)
      [] expression.k = "Comma" -> eval_comma_expression(st, expression.es)
      [] expression.k = "Grouping" -> evaluate(st, expression.e)
      [] expression.k = "Logical" ->
           eval_logical_expression(st, expression.l, expression.op, expression.r)
      [] expression.k = "Call" ->
           eval_call_expression(st, expression.callee, expression.args)
      [] expression.k = "Identifier" ->
           IF Locals(st, expression.id) = 0
           THEN eval_identifier(st, expression.name)
           ELSE eval_identifier_at(st, expression.name, Locals(st, expression.id))
      [] OTHER -> Res(st, Ok(expression))

\* println!("{}", result)
print_value(r) ==
    IF r.out.kind # "Ok" THEN r
    ELSE Res([r.st EXCEPT !.printed = Append(@, Display(r.out.val))], Ok(Nil))

print(st, expr) == print_value(evaluate(st, expr))

\* history: the value an `if` or `while` tested and what it selected
LogTest(st, k, value, branch) ==
    [st EXCEPT !.tests = Append(@,
        [k |-> k, val |-> value, branch |-> branch, act |-> st.act])]

if_branch(c, true_branch, hasElse, else_branch) ==
    IF c.out.kind # "Ok" THEN c
    ELSE IF c.out.val # LiteralBoolean(TRUE)
         THEN IF ~hasElse
              THEN Res(LogTest(c.st, "IfStatement", c.out.val, "none"), Ok(Nil))
              ELSE execute(LogTest(c.st, "IfStatement", c.out.val, "else"), else_branch)
         ELSE execute(LogTest(c.st, "IfStatement", c.out.val, "then"), true_branch)

execute_if(st, condition, true_branch, hasElse, else_branch) ==
    if_branch(evaluate(st, condition), true_branch, hasElse, else_branch)

RECURSIVE while_loop(_, _, _, _)
while_next(b, condition, body, n) ==
    IF b.out.kind # "Ok" THEN b
    ELSE while_loop(b.st, condition, body, n + 1)

while_body(c, condition, body, n) ==
    IF c.out.kind # "Ok" THEN c
    ELSE IF ~is_truthy(c.out.val)
         THEN Res(LogTest(c.st, "WhileStatement", c.out.val, "none"), Ok(Nil))
    ELSE while_next(execute(LogTest(c.st, "WhileStatement", c.out.val, "then"), body),
                    condition, body, n)

while_loop(st, condition, body, n) ==
    IF n >= MaxLoop THEN Res(st, Diverged)
    ELSE while_body(evaluate(st, condition), condition, body, n)

execute_while(st, condition, body) == while_loop(st, condition, body, 0)

\* self.current_environment() is front().unwrap(): a panic on an empty chain
\* history: one function declaration; inFront tells whether the front frame
\* of the chain held a callable of that name when the declaration started
LogFunDeclaration(st, name, r) ==
    Res([r.st EXCEPT !.fundecls = Append(@,
            [name |-> name, out |-> r.out, envs |-> st.environments,
             inFront |-> /\ Len(st.environments) > 0
                         /\ name \in DOMAIN st.heap[st.environments[1]].callables])],
        r.out)

define_function(st, name, parameters, body) ==
    IF get_callable(st, name).kind # "none"
    THEN LogFunDeclaration(st, name, Res(st, Errored("Function already exists", name)))
    ELSE IF Len(st.environments) = 0 THEN Res(st, Panicked)
    ELSE LogFunDeclaration(st, name,
            Res([st EXCEPT !.heap = env_define_callable(@, st.environments[1], name,
                  LoxDefinedFunction(name, parameters, body, st.environments, st.scope))],
                Ok(Nil)))

\* self.environments.push_front(Environment::new()); the block is one scope
\* of the history
push_front(st) ==
    [st EXCEPT !.heap = Append(@, EnvironmentNew(NoEnv)),
               !.environments = <<Len(st.heap) + 1>> \o @,
               !.scope = st.nextScope, !.nextScope = @ + 1,
               !.active = @ \cup {st.nextScope}]

\* `self.execute(stmt)?` leaves the method at once; only after the loop
\* `self.environments.pop_front(); Ok(())`
pop_front(r) ==
    IF r.out.kind # "Ok" THEN r
    ELSE Res([r.st EXCEPT !.environments = IF Len(@) = 0 THEN @ ELSE Tail(@)],
             r.out)

\* history: one block, r being its result
LogBlock(st, r) ==
    Res([r.st EXCEPT !.scope = st.scope, !.active = st.active,
                     !.blocks = Append(@,
                        [act |-> st.act, before |-> st.environments,
                         after |-> r.st.environments, out |-> r.out])],
        r.out)

execute_block_statement(st, statements) ==
    LogBlock(st, pop_front(exec_statements(push_front(st), statements, 1)))

define_variable(init, name) ==
    IF init.out.kind # "Ok" THEN init
    ELSE IF Len(init.st.environments) = 0 THEN Res(init.st, Panicked)
    ELSE Res([init.st EXCEPT !.heap =
                env_define(@, init.st.environments[1], name, init.out.val)],
             Ok(Nil))

declare_variable(st, name, hasInit, initializer) ==
    define_variable(IF hasInit THEN evaluate(st, initializer) ELSE Res(st, Ok(NoneV)),
                    name)

\* Err(BreakReason::Returned(v))
break_returned(st, v) ==
    IF v.out.kind # "Ok" THEN v
    ELSE Res([v.st EXCEPT !.trace = Append(@,
                [ev |-> "returned", act |-> st.act, k |-> "ReturnStatement",
                 val |-> v.out.val])],
             Returned(v.out.val))

execute_return(st, value) == break_returned(st, evaluate(st, value))

Discard(r) == IF r.out.kind = "Ok" THEN Res(r.st, Ok(Nil)) ELSE r

\* history: the statement about to run
LogStatement(st, statement) ==
    [st EXCEPT !.trace = Append(@,
        [ev |-> "stmt", act |-> st.act, k |-> statement.k, val |-> Nil])]

match_statement(st, statement) ==
    CASE statement.k = "ExpressionStatement" -> Discard(evaluate(st, statement.e))
      [] statement.k = "PrintStatement" -> print(st, statement.e)
      [] statement.k = "VariableDeclaration" ->
           declare_variable(st, statement.name, statement.hasInit, statement.e)
      [] statement.k = "BlockStatement" -> execute_block_statement(st, statement.ss)
      [] statement.k = "IfStatement" ->
           execute_if(st, statement.c, statement.t, statement.hasElse, statement.el)
      [] statement.k = "WhileStatement" ->
           execute_while(st, statement.c, statement.body)
      [] statement.k = "FunDeclaration" ->
           define_function(st, statement.name, statement.parameters, statement.body)
      [] statement.k = "ReturnStatement" -> execute_return(st, statement.e)

execute(st, statement) == match_statement(LogStatement(st, statement), statement)

\* Interpreter::interpret: only Err(Errored(e)) ends the loop
RECURSIVE interpret_from(_, _, _)
interpret_next(r, statements, i) ==
    IF r.out.kind \in {"Errored", "Panicked", "Diverged"} THEN r
    ELSE interpret_from(r.st, statements, i + 1)

interpret_from(st, statements, i) ==
    IF i > Len(statements) THEN Res(st, Ok(Nil))
    ELSE interpret_next(execute(st, statements[i]), statements, i)

interpret(st, statements) == interpret_from(st, statements, 1)

\* ---------------------------------------------------------------- the parser
\* struct Token { kind, lexeme, line }: a token is its TokenKind with the
\* payload of the literal kinds (n, s, b); the lexeme of an identifier is its
\* payload s.  Lines only appear in error messages and are left out.
Token(kind)          == [kind |-> kind, n |-> 0, s |-> "", b |-> FALSE]
TokenIdentifier(s)   == [kind |-> "Identifier", n |-> 0, s |-> s, b |-> FALSE]
TokenString(s)       == [kind |-> "String", n |-> 0, s |-> s, b |-> FALSE]
TokenNumber(n)       == [kind |-> "Number", n |-> n, s |-> "", b |-> FALSE]
TokenBoolean(b)      == [kind |-> "Boolean", n |-> 0, s |-> "", b |-> b]

\* Result<T, LoxError> of a parser method, with the tokens the scanner has
\* left (ts: Peekable<Scanner>, the next token first)
ParseOk(ts, val)  == [ts |-> ts, ok |-> TRUE,  val |-> val, msg |-> ""]
ParseErr(ts, msg) == [ts |-> ts, ok |-> FALSE, val |-> Nil, msg |-> msg]

\* self.scanner.peek() is Some(Ok(token)) of one of the kinds in args
\* (mem::discriminant: the payload is not compared)
match_peeked_token(ts, args) == Len(ts) > 0 /\ ts[1].kind \in args

\* the token is consumed only if it matched
match_next_token(ts, args) ==
    IF match_peeked_token(ts, args) THEN ParseOk(Tail(ts), ts[1])
    ELSE ParseErr(ts, "None")

consume_next(ts, expected_kind) ==
    IF Len(ts) = 0 THEN ParseErr(ts, "Unexpected end of scan")
    ELSE IF ts[1].kind = expected_kind THEN ParseOk(Tail(ts), ts[1])
    ELSE ParseErr(ts, "Expected token of kind " \o expected_kind)

\* `self.consume_next(&kind)?; Ok(val)`
consume_then(ts, expected_kind, val) ==
    IF consume_next(ts, expected_kind).ok
    THEN ParseOk(consume_next(ts, expected_kind).ts, val)
    ELSE consume_next(ts, expected_kind)

\* expected_kind == kind: the whole TokenKind is compared
check_next(ts, expected_kind) == Len(ts) > 0 /\ ts[1] = Token(expected_kind)

parse_token_as_unary_op(token) ==
    CASE token.kind = "Bang"  -> "!"
      [] token.kind = "Minus" -> "-"

parse_token_as_binary_op(token) ==
    CASE token.kind = "Plus"         -> "+"
      [] token.kind = "Minus"        -> "-"
      [] token.kind = "BangEqual"    -> "!="
      [] token.kind = "EqualEqual"   -> "=="
      [] token.kind = "GreaterEqual" -> ">="
      [] token.kind = "Greater"      -> ">"
      [] token.kind = "LessEqual"    -> "<="
      [] token.kind = "Less"         -> "<"
      [] token.kind = "Slash"        -> "/"
      [] token.kind = "Star"         -> "*"

parse_token_as_logical_op(token) ==
    CASE token.kind = "And" -> "and"
      [] token.kind = "Or"  -> "or"

\* the id of an Identifier or Assignment node built by the parser (the
\* parser numbers no expression; Interpreter.locals has no entry for any)
NoId == 0

RECURSIVE expression(_)
RECURSIVE declaration(_)
RECURSIVE statement(_)

\* TokenKind::Comma of a parenthesised list: the loop of primary
RECURSIVE comma_expressions(_, _)
comma_expressions(next_expr, expressions) ==
    IF ~next_expr.ok THEN next_expr
    ELSE IF Len(next_expr.ts) = 0
    THEN ParseErr(next_expr.ts, "Expected comma ',' or closing parenthesis ')'.")
    ELSE CASE next_expr.ts[1].kind = "RightParen" ->
                ParseOk(Tail(next_expr.ts), Comma(Append(expressions, next_expr.val)))
           [] next_expr.ts[1].kind = "Comma" ->
                comma_expressions(expression(Tail(next_expr.ts)),
                                  Append(expressions, next_expr.val))
           [] OTHER ->
                ParseErr(Tail(next_expr.ts),
                         "Expected comma ',' or closing parenthesis ')'.")

\* primary after `(` and the expression that follows it
grouping(expr) ==
    IF ~expr.ok THEN expr
    ELSE IF Len(expr.ts) = 0
    THEN ParseErr(expr.ts, "Expected closing parenthesis ')'.")
    ELSE CASE expr.ts[1].kind = "RightParen" ->
                ParseOk(Tail(expr.ts), Grouping(expr.val))
           [] expr.ts[1].kind = "Comma" ->
                comma_expressions(expression(Tail(expr.ts)), <<expr.val>>)
           [] OTHER -> ParseErr(Tail(expr.ts), "Expected closing parenthesis ')'.")

PrimaryKinds == {"Nil", "Boolean", "Number", "String", "Identifier", "LeftParen"}

primary(ts) ==
    IF ~match_peeked_token(ts, PrimaryKinds) THEN ParseErr(ts, "Expected expression.")
    ELSE CASE ts[1].kind = "LeftParen"  -> grouping(expression(Tail(ts)))
           [] ts[1].kind = "Number"     -> ParseOk(Tail(ts), LiteralNumber(ts[1].n))
           [] ts[1].kind = "String"     -> ParseOk(Tail(ts), LiteralString(ts[1].s))
           [] ts[1].kind = "Boolean"    -> ParseOk(Tail(ts), LiteralBoolean(ts[1].b))
           [] ts[1].kind = "Nil"        -> ParseOk(Tail(ts), Nil)
           [] ts[1].kind = "Identifier" -> ParseOk(Tail(ts), Identifier(NoId, ts[1].s))

\* the argument loop of call: `arguments.push(self.expression()?)`, then a
\* comma goes on and anything else ends the list
RECURSIVE call_arguments(_, _)
call_arguments(argument, arguments) ==
    IF ~argument.ok THEN argument
    ELSE IF match_peeked_token(argument.ts, {"Comma"})
    THEN IF Len(arguments) + 1 >= 255
         THEN ParseErr(Tail(argument.ts), "Cannot have more than 255 arguments to a call.")
         ELSE call_arguments(expression(Tail(argument.ts)),
                             Append(arguments, argument.val))
    ELSE ParseOk(argument.ts, Append(arguments, argument.val))

RECURSIVE call_loop(_)
\* `let Some(t) = self.match_next_token(&[RightParen]) else { return Err(..) }`
call_close(callee, arguments) ==
    IF ~arguments.ok THEN arguments
    ELSE IF match_peeked_token(arguments.ts, {"RightParen"})
    THEN call_loop(ParseOk(Tail(arguments.ts), Call(callee, arguments.val)))
    ELSE ParseErr(arguments.ts, "Expected closing parenthesis")

\* `while let Some(opening_paren) = self.match_next_token(&[LeftParen])`
call_loop(expr) ==
    IF ~expr.ok THEN expr
    ELSE IF match_peeked_token(expr.ts, {"LeftParen"})
    THEN call_close(expr.val,
            IF check_next(Tail(expr.ts), "RightParen")
            THEN ParseOk(Tail(expr.ts), <<>>)
            ELSE call_arguments(expression(Tail(expr.ts)), <<>>))
    ELSE expr

call(ts) == call_loop(primary(ts))

unary_node(operator, right) ==
    IF ~right.ok THEN right
    ELSE ParseOk(right.ts, Unary(operator, right.val))

\* the operand of a unary operator: `let right = self.call()?`
unary(ts) ==
    IF match_peeked_token(ts, {"Bang", "Minus"})
    THEN unary_node(parse_token_as_unary_op(ts[1]), call(Tail(ts)))
    ELSE call(ts)

\* `.map(|right| Expression::Binary { left, operator, right })?`
binary_node(left, operator, right) ==
    IF ~right.ok THEN right
    ELSE ParseOk(right.ts, Binary(left, operator, right.val))

\* `.map(|right| Expression::Logical { left, operator, right })?`
logical_node(left, operator, right) ==
    IF ~right.ok THEN right
    ELSE ParseOk(right.ts, Logical(left, operator, right.val))

RECURSIVE factor_loop(_)
factor_loop(expr) ==
    IF ~expr.ok THEN expr
    ELSE IF match_peeked_token(expr.ts, {"Slash", "Star"})
    THEN factor_loop(binary_node(expr.val, parse_token_as_binary_op(expr.ts[1]),
                                 unary(Tail(expr.ts))))
    ELSE expr

factor(ts) == factor_loop(unary(ts))

RECURSIVE term(_)
\* a right operand that is a whole term: `-` and `+` would associate to the
\* right
term_right_operand_term(ts) == term(ts)

\* `expr = self.factor().map(..)`: the right operand of `-` and `+`
term_right_operand(ts) == factor(ts)

RECURSIVE term_loop(_)
term_loop(expr) ==
    IF ~expr.ok THEN expr
    ELSE IF match_peeked_token(expr.ts, {"Minus", "Plus"})
    THEN term_loop(binary_node(expr.val, parse_token_as_binary_op(expr.ts[1]),
                               term_right_operand(Tail(expr.ts))))
    ELSE expr

term(ts) == term_loop(factor(ts))

RECURSIVE comparison_loop(_)
comparison_loop(expr) ==
    IF ~expr.ok THEN expr
    ELSE IF match_peeked_token(expr.ts, {"Greater", "GreaterEqual", "Less", "LessEqual"})
    THEN comparison_loop(binary_node(expr.val, parse_token_as_binary_op(expr.ts[1]),
                                     term(Tail(expr.ts))))
    ELSE expr

\* named parse_comparison: `comparison` is the interpreter's method
parse_comparison(ts) == comparison_loop(term(ts))

RECURSIVE equality_loop(_)
equality_loop(expr) ==
    IF ~expr.ok THEN expr
    ELSE IF match_peeked_token(expr.ts, {"BangEqual", "EqualEqual"})
    THEN equality_loop(binary_node(expr.val, parse_token_as_binary_op(expr.ts[1]),
                                   parse_comparison(Tail(expr.ts))))
    ELSE expr

equality(ts) == equality_loop(parse_comparison(ts))

\* the right operand of `and` is `self.comparison()`
RECURSIVE and_loop(_)
and_loop(expr) ==
    IF ~expr.ok THEN expr
    ELSE IF match_peeked_token(expr.ts, {"And"})
    THEN and_loop(logical_node(expr.val, parse_token_as_logical_op(expr.ts[1]),
                               parse_comparison(Tail(expr.ts))))
    ELSE expr

and(ts) == and_loop(equality(ts))

\* the right operand of `or` is `self.comparison()`
RECURSIVE or_loop(_)
or_loop(expr) ==
    IF ~expr.ok THEN expr
    ELSE IF match_peeked_token(expr.ts, {"Or"})
    THEN or_loop(logical_node(expr.val, parse_token_as_logical_op(expr.ts[1]),
                              parse_comparison(Tail(expr.ts))))
    ELSE expr

or(ts) == or_loop(and(ts))

RECURSIVE assignment(_)
\* `let value = self.assignment()?;` and the test of the target
assignment_node(target, value) ==
    IF ~value.ok THEN value
    ELSE IF target.k = "Identifier"
    THEN ParseOk(value.ts, Assignment(NoId, target.name, value.val))
    ELSE ParseErr(value.ts, "Invalid assignment target")

\* assignment after `let expr = self.or()?`
assignment_target(expr) ==
    IF ~expr.ok THEN expr
    ELSE IF Len(expr.ts) = 0 THEN ParseErr(expr.ts, "Invalid assignment expression")
    ELSE IF match_peeked_token(expr.ts, {"Equal"})
    THEN assignment_node(expr.val, assignment(Tail(expr.ts)))
    ELSE expr

assignment(ts) == assignment_target(or(ts))

expression(ts) == assignment(ts)

\* `let value = self.expression()?; self.consume_next(&Semicolon)?;`
expression_statement_node(value) ==
    IF ~value.ok THEN value
    ELSE consume_then(value.ts, "Semicolon", ExpressionStatement(value.val))

expression_statement(ts) == expression_statement_node(expression(ts))

print_statement_node(value) ==
    IF ~value.ok THEN value
    ELSE consume_then(value.ts, "Semicolon", PrintStatement(value.val))

print_statement(ts) == print_statement_node(expression(ts))

return_statement_node(value) ==
    IF ~value.ok THEN value
    ELSE consume_then(value.ts, "Semicolon", ReturnStatement(value.val))

\* `let value = self.expression()?` whatever the next token is
return_statement(ts) == return_statement_node(expression(ts))

variable_declaration_node(identifier, hasInit, initializer) ==
    IF ~initializer.ok THEN initializer
    ELSE consume_then(initializer.ts, "Semicolon",
                      VariableDeclaration(identifier, hasInit, initializer.val))

variable_declaration_statement(ts) ==
    IF ~match_peeked_token(ts, {"Identifier"})
    THEN ParseErr(ts, "Expected variable identifier.")
    ELSE IF match_peeked_token(Tail(ts), {"Equal"})
    THEN variable_declaration_node(ts[1].s, TRUE, expression(Tail(Tail(ts))))
    ELSE variable_declaration_node(ts[1].s, FALSE, ParseOk(Tail(ts), Nil))

\* the loop of block_statement: until `}` or the end of the tokens
RECURSIVE block_loop(_, _)
block_next(d, statements) ==
    IF ~d.ok THEN d
    ELSE block_loop(d.ts, Append(statements, d.val))

block_loop(ts, statements) ==
    IF Len(ts) = 0 \/ ts[1] = Token("RightBrace")
    THEN consume_then(ts, "RightBrace", statements)
    ELSE block_next(declaration(ts), statements)

block_statement(ts) == block_loop(ts, <<>>)

\* Statement::BlockStatement { statements: self.block_statement()? }
block_node(statements) ==
    IF ~statements.ok THEN statements
    ELSE ParseOk(statements.ts, BlockStatement(statements.val))

\* the parameter loop of function_declaration
RECURSIVE function_parameters(_, _)
function_parameters(ts, parameters) ==
    IF Len(parameters) >= 255
    THEN ParseErr(ts, "Cannot have more than 255 parameters.")
    ELSE IF ~consume_next(ts, "Identifier").ok THEN consume_next(ts, "Identifier")
    ELSE IF match_peeked_token(Tail(ts), {"Comma"})
    THEN function_parameters(Tail(Tail(ts)), Append(parameters, ts[1].s))
    ELSE ParseOk(Tail(ts), Append(parameters, ts[1].s))

function_node(name, parameters, body) ==
    IF ~body.ok THEN body
    ELSE ParseOk(body.ts, FunDeclaration(name, parameters, body.val))

\* function_declaration after the parameters
function_body(name, parameters) ==
    IF ~parameters.ok THEN parameters
    ELSE IF ~match_peeked_token(parameters.ts, {"RightParen"})
    THEN ParseErr(parameters.ts, "Expected closing parenthesis")
    ELSE IF ~consume_next(Tail(parameters.ts), "LeftBrace").ok
    THEN consume_next(Tail(parameters.ts), "LeftBrace")
    ELSE function_node(name, parameters.val, block_statement(Tail(Tail(parameters.ts))))

function_declaration(ts) ==
    IF ~consume_next(ts, "Identifier").ok THEN consume_next(ts, "Identifier")
    ELSE IF ~consume_next(Tail(ts), "LeftParen").ok THEN consume_next(Tail(ts), "LeftParen")
    ELSE function_body(ts[1].s,
            IF check_next(Tail(Tail(ts)), "RightParen")
            THEN ParseOk(Tail(Tail(ts)), <<>>)
            ELSE function_parameters(Tail(Tail(ts)), <<>>))

if_node(condition, true_statement, hasElse, else_statement) ==
    IF ~else_statement.ok THEN else_statement
    ELSE ParseOk(else_statement.ts,
                 IfStatement(condition, true_statement, hasElse, else_statement.val))

if_else(condition, true_statement) ==
    IF ~true_statement.ok THEN true_statement
    ELSE IF match_peeked_token(true_statement.ts, {"Else"})
    THEN if_node(condition, true_statement.val, TRUE,
                 statement(Tail(true_statement.ts)))
    ELSE if_node(condition, true_statement.val, FALSE,
                 ParseOk(true_statement.ts, BlockStatement(<<>>)))

if_then(condition) ==
    IF ~condition.ok THEN condition
    ELSE IF ~consume_next(condition.ts, "RightParen").ok
    THEN consume_next(condition.ts, "RightParen")
    ELSE if_else(condition.val, statement(Tail(condition.ts)))

if_statement(ts) ==
    IF ~consume_next(ts, "LeftParen").ok THEN consume_next(ts, "LeftParen")
    ELSE if_then(expression(Tail(ts)))

while_node(condition, body) ==
    IF ~body.ok THEN body
    ELSE ParseOk(body.ts, WhileStatement(condition, body.val))

while_body_statement(condition) ==
    IF ~condition.ok THEN condition
    ELSE IF ~consume_next(condition.ts, "RightParen").ok
    THEN consume_next(condition.ts, "RightParen")
    ELSE while_node(condition.val, statement(Tail(condition.ts)))

while_statement(ts) ==
    IF ~consume_next(ts, "LeftParen").ok THEN consume_next(ts, "LeftParen")
    ELSE while_body_statement(expression(Tail(ts)))

\* Option<T> of the three clauses of a for statement
Some(v) == [some |-> TRUE, v |-> v]
None    == [some |-> FALSE, v |-> Nil]

\* Some(..) of a clause that parsed
for_clause(r) ==
    IF ~r.ok THEN r ELSE ParseOk(r.ts, Some(r.val))

\* the end of for_statement: the while loop the clauses stand for
for_node(initializer, condition, increment, body) ==
    IF ~body.ok THEN body
    ELSE ParseOk(body.ts,
        IF initializer.some
        THEN BlockStatement(<<initializer.v,
                WhileStatement(IF condition.some THEN condition.v ELSE LiteralBoolean(TRUE),
                    IF increment.some
                    THEN BlockStatement(<<body.val, ExpressionStatement(increment.v)>>)
                    ELSE body.val)>>)
        ELSE WhileStatement(IF condition.some THEN condition.v ELSE LiteralBoolean(TRUE),
                    IF increment.some
                    THEN BlockStatement(<<body.val, ExpressionStatement(increment.v)>>)
                    ELSE body.val))

for_body(initializer, condition, increment) ==
    IF ~increment.ok THEN increment
    ELSE IF ~consume_next(increment.ts, "RightParen").ok
    THEN consume_next(increment.ts, "RightParen")
    ELSE for_node(initializer, condition, increment.val,
                  statement(Tail(increment.ts)))

for_increment(initializer, condition) ==
    IF ~condition.ok THEN condition
    ELSE IF ~consume_next(condition.ts, "Semicolon").ok
    THEN consume_next(condition.ts, "Semicolon")
    ELSE IF check_next(Tail(condition.ts), "RightParen")
    THEN for_body(initializer, condition.val, ParseOk(Tail(condition.ts), None))
    ELSE for_body(initializer, condition.val,
                  for_clause(expression(Tail(condition.ts))))

for_condition(initializer) ==
    IF ~initializer.ok THEN initializer
    ELSE IF check_next(initializer.ts, "Semicolon")
    THEN for_increment(initializer.val, ParseOk(initializer.ts, None))
    ELSE for_increment(initializer.val, for_clause(expression(initializer.ts)))

for_statement(ts) ==
    IF ~consume_next(ts, "LeftParen").ok THEN consume_next(ts, "LeftParen")
    ELSE IF check_next(Tail(ts), "Semicolon")
    THEN for_condition(ParseOk(Tail(Tail(ts)), None))
    ELSE IF check_next(Tail(ts), "Var")
    THEN for_condition(for_clause(variable_declaration_statement(Tail(Tail(ts)))))
    ELSE for_condition(for_clause(expression_statement(Tail(ts))))

statement(ts) ==
    CASE match_peeked_token(ts, {"Print"})     -> print_statement(Tail(ts))
      [] match_peeked_token(ts, {"LeftBrace"}) -> block_node(block_statement(Tail(ts)))
      [] match_peeked_token(ts, {"If"})        -> if_statement(Tail(ts))
      [] match_peeked_token(ts, {"While"})     -> while_statement(Tail(ts))
      [] match_peeked_token(ts, {"For"})       -> for_statement(Tail(ts))
      [] match_peeked_token(ts, {"Return"})    -> return_statement(Tail(ts))
      [] OTHER -> expression_statement(ts)

declaration(ts) ==
    CASE match_peeked_token(ts, {"Var"}) -> variable_declaration_statement(Tail(ts))
      [] match_peeked_token(ts, {"Fun"}) -> function_declaration(Tail(ts))
      [] OTHER -> statement(ts)

\* Parser::parse: declarations until the Eof token is the next one
RECURSIVE parse_loop(_, _)
parse_next(d, result) ==
    IF ~d.ok THEN d
    ELSE parse_loop(d.ts, Append(result, d.val))

parse_loop(ts, result) ==
    IF match_peeked_token(ts, {"Eof"}) THEN ParseOk(ts, result)
    ELSE parse_next(declaration(ts), result)

parse(ts) == parse_loop(ts, <<>>)

\* ------------------------------------------------------------- the programs
\* The statement lists handed to interpret, as the parser builds them.
Num(n)  == LiteralNumber(n)
Str(x)  == LiteralString(x)
Bool(x) == LiteralBoolean(x)
Var(name, e) == VariableDeclaration(name, TRUE, e)
VarUninit(name) == VariableDeclaration(name, FALSE, Nil)
If(c, t) == IfStatement(c, t, FALSE, BlockStatement(<<>>))

\* var a = "global"; { var a = "inner"; print a; } print a;
PShadow ==
    << Var("a", Str("global")),
       BlockStatement(<< Var("a", Str("inner")), PrintStatement(Identifier(1, "a")) >>),
       PrintStatement(Identifier(2, "a")) >>

\* fun make(n) { fun add(x) { return x + n; } return add; }
\* var f = make(10); print f(5);
PFirstClass ==
    << FunDeclaration("make", <<"n">>,
          << FunDeclaration("add", <<"x">>,
                << ReturnStatement(Binary(Identifier(1, "x"), "+", Identifier(2, "n"))) >>),
             ReturnStatement(Identifier(3, "add")) >>),
       Var("f", Call(Identifier(4, "make"), <<Num(10)>>)),
       PrintStatement(Call(Identifier(5, "f"), <<Num(5)>>)) >>

\* fun mk() { fun one() { return 1; } return one; } print mk()();
PCallResult ==
    << FunDeclaration("mk", <<>>,
          << FunDeclaration("one", <<>>, << ReturnStatement(Num(1)) >>),
             ReturnStatement(Identifier(1, "one")) >>),
       PrintStatement(Call(Call(Identifier(2, "mk"), <<>>), <<>>)) >>

\* var n = 100;
\* { fun outer() { var n = 0; fun count() { n = n + 1; return n; } }
\*   outer(); print count(); print count(); }
PCounter ==
    << Var("n", Num(100)),
       BlockStatement(
         << FunDeclaration("outer", <<>>,
               << Var("n", Num(0)),
                  FunDeclaration("count", <<>>,
                     << ExpressionStatement(Assignment(1, "n",
                            Binary(Identifier(2, "n"), "+", Num(1)))),
                        ReturnStatement(Identifier(3, "n")) >>) >>),
            ExpressionStatement(Call(Identifier(4, "outer"), <<>>)),
            PrintStatement(Call(Identifier(5, "count"), <<>>)),
            PrintStatement(Call(Identifier(6, "count"), <<>>)) >>) >>

\* { var i = 0; fun inc() { i = i + 1; return i; } print inc(); print inc(); }
PBlockCounter ==
    << BlockStatement(
         << Var("i", Num(0)),
            FunDeclaration("inc", <<>>,
               << ExpressionStatement(Assignment(1, "i",
                      Binary(Identifier(2, "i"), "+", Num(1)))),
                  ReturnStatement(Identifier(3, "i")) >>),
            PrintStatement(Call(Identifier(4, "inc"), <<>>)),
            PrintStatement(Call(Identifier(5, "inc"), <<>>)) >>) >>

\* var a; print a;
PUninit == << VarUninit("a"), PrintStatement(Identifier(1, "a")) >>

\* var b = 1; { var b; print b; }
PUninitInner ==
    << Var("b", Num(1)),
       BlockStatement(<< VarUninit("b"), PrintStatement(Identifier(1, "b")) >>) >>

\* x = 1; print x;
PAssignUndeclared ==
    << ExpressionStatement(Assignment(1, "x", Num(1))),
       PrintStatement(Identifier(2, "x")) >>

\* return 1; print 2;
PTopReturn == << ReturnStatement(Num(1)), PrintStatement(Num(2)) >>

\* { var c = 1; print nope; }
PBlockError ==
    << BlockStatement(<< Var("c", Num(1)), PrintStatement(Identifier(1, "nope")) >>) >>

\* fun g(p) { while (true) { if (true) { return 7; } print "no"; } print "no"; }
\* print g(1); print "next";
PReturnNested ==
    << FunDeclaration("g", <<"p">>,
          << WhileStatement(Bool(TRUE),
                BlockStatement(
                  << If(Bool(TRUE), BlockStatement(<< ReturnStatement(Num(7)) >>)),
                     PrintStatement(Str("no")) >>)),
             PrintStatement(Str("no")) >>),
       PrintStatement(Call(Identifier(1, "g"), <<Num(1)>>)),
       PrintStatement(Str("next")) >>

\* fun h() { return 1; } { h(); var z = 3; } var w = 4;
PCallInBlock ==
    << FunDeclaration("h", <<>>, << ReturnStatement(Num(1)) >>),
       BlockStatement(
         << ExpressionStatement(Call(Identifier(1, "h"), <<>>)),
            Var("z", Num(3)) >>),
       Var("w", Num(4)) >>

\* fun e() { print nope; print "after"; } { e(); }
PErrorInBody ==
    << FunDeclaration("e", <<>>,
          << PrintStatement(Identifier(1, "nope")), PrintStatement(Str("after")) >>),
       BlockStatement(<< ExpressionStatement(Call(Identifier(2, "e"), <<>>)) >>) >>

\* fun k(q) { var t = 5; print t; } { k(2); }  print clock() > 0;
PPlainCall ==
    << FunDeclaration("k", <<"q">>,
          << Var("t", Num(5)), PrintStatement(Identifier(1, "t")) >>),
       BlockStatement(<< ExpressionStatement(Call(Identifier(2, "k"), <<Num(2)>>)) >>),
       PrintStatement(Binary(Call(Identifier(3, "clock"), <<>>), ">", Num(0))) >>

\* fun r(m) { if (m < 1) return 0; return r(m - 1); } print r(1);
PRecursive ==
    << FunDeclaration("r", <<"m">>,
          << If(Binary(Identifier(1, "m"), "<", Num(1)), ReturnStatement(Num(0))),
             ReturnStatement(Call(Identifier(2, "r"),
                 <<Binary(Identifier(3, "m"), "-", Num(1))>>)) >>),
       PrintStatement(Call(Identifier(4, "r"), <<Num(1)>>)) >>

\* fun outer2() { var u = 0; fun cnt() { u = u + 1; return u; } }
\* outer2(); print cnt(); print cnt();
PGlobalCounter ==
    << FunDeclaration("outer2", <<>>,
          << Var("u", Num(0)),
             FunDeclaration("cnt", <<>>,
                << ExpressionStatement(Assignment(1, "u",
                       Binary(Identifier(2, "u"), "+", Num(1)))),
                   ReturnStatement(Identifier(3, "u")) >>) >>),
       ExpressionStatement(Call(Identifier(4, "outer2"), <<>>)),
       PrintStatement(Call(Identifier(5, "cnt"), <<>>)),
       PrintStatement(Call(Identifier(6, "cnt"), <<>>)) >>

\* if (0) print "then"; else print "else";
\* if ("") print "then"; else print "else";
\* if (clock) print "then"; else print "else";
\* if (nil) print "then"; else print "else";
\* if (false) print "then";
\* if (true) print "then"; else print "else";
\* var c = 1; while (c) { print "loop"; c = nil; }
PTruthiness ==
    << IfStatement(Num(0), PrintStatement(Str("then")), TRUE, PrintStatement(Str("else"))),
       IfStatement(Str(""), PrintStatement(Str("then")), TRUE, PrintStatement(Str("else"))),
       IfStatement(Identifier(1, "clock"), PrintStatement(Str("then")), TRUE,
                   PrintStatement(Str("else"))),
       IfStatement(Nil, PrintStatement(Str("then")), TRUE, PrintStatement(Str("else"))),
       If(Bool(FALSE), PrintStatement(Str("then"))),
       IfStatement(Bool(TRUE), PrintStatement(Str("then")), TRUE, PrintStatement(Str("else"))),
       Var("c", Num(1)),
       WhileStatement(Identifier(2, "c"),
          BlockStatement(<< PrintStatement(Str("loop")),
                            ExpressionStatement(Assignment(3, "c", Nil)) >>)) >>

\* var s = 0; var t = 0;
\* print (s = false) and (t = 1);  print (s = nil) and (t = 2);
\* print (s = 1) or (t = 3);       print (s = 0) and (t = 4);
\* print (s = false) or (t = 5);   print (s = "") or (t = 6);
PLogical ==
    << Var("s", Num(0)), Var("t", Num(0)),
       PrintStatement(Logical(Grouping(Assignment(1, "s", Bool(FALSE))), "and",
                              Grouping(Assignment(2, "t", Num(1))))),
       PrintStatement(Logical(Grouping(Assignment(3, "s", Nil)), "and",
                              Grouping(Assignment(4, "t", Num(2))))),
       PrintStatement(Logical(Grouping(Assignment(5, "s", Num(1))), "or",
                              Grouping(Assignment(6, "t", Num(3))))),
       PrintStatement(Logical(Grouping(Assignment(7, "s", Num(0))), "and",
                              Grouping(Assignment(8, "t", Num(4))))),
       PrintStatement(Logical(Grouping(Assignment(9, "s", Bool(FALSE))), "or",
                              Grouping(Assignment(10, "t", Num(5))))),
       PrintStatement(Logical(Grouping(Assignment(11, "s", Str(""))), "or",
                              Grouping(Assignment(12, "t", Num(6))))) >>

\* var a = 0; print (a = 1, a = 2); print a; print (3, 4, 5);
PComma ==
    << Var("a", Num(0)),
       PrintStatement(Comma(<< Assignment(1, "a", Num(1)),
                               Assignment(2, "a", Num(2)) >>)),
       PrintStatement(Identifier(3, "a")),
       PrintStatement(Comma(<< Num(3), Num(4), Num(5) >>)) >>

\* var a = 0; fun g(x, y) { print a; a = 3; } g(a = 1, a = 2); print a;
PArityMatch ==
    << Var("a", Num(0)),
       FunDeclaration("g", <<"x", "y">>,
           << PrintStatement(Identifier(1, "a")),
              ExpressionStatement(Assignment(2, "a", Num(3))) >>),
       ExpressionStatement(Call(Identifier(3, "g"),
           << Assignment(4, "a", Num(1)), Assignment(5, "a", Num(2)) >>)),
       PrintStatement(Identifier(6, "a")) >>

\* var a = 0; fun g(x, y) { print a; a = 3; } { var b = 0; g(a = 1); }
PArityMismatch ==
    << Var("a", Num(0)),
       FunDeclaration("g", <<"x", "y">>,
           << PrintStatement(Identifier(1, "a")),
              ExpressionStatement(Assignment(2, "a", Num(3))) >>),
       BlockStatement(<< Var("b", Num(0)),
                ExpressionStatement(Call(Identifier(3, "g"),
                    << Assignment(4, "a", Num(1)) >>)) >>) >>

\* fun g() { return 1; } { fun g() { return 2; } print g(); } print g();
PFunShadow ==
    << FunDeclaration("g", <<>>, << ReturnStatement(Num(1)) >>),
       BlockStatement(<< FunDeclaration("g", <<>>, << ReturnStatement(Num(2)) >>),
                         PrintStatement(Call(Identifier(1, "g"), <<>>)) >>),
       PrintStatement(Call(Identifier(2, "g"), <<>>)) >>

\* { fun clock() { return 0; } print clock(); }
PClockShadow ==
    << BlockStatement(<< FunDeclaration("clock", <<>>, << ReturnStatement(Num(0)) >>),
                         PrintStatement(Call(Identifier(1, "clock"), <<>>)) >>) >>

\* var a = 1; var b = 7; { var a = 2; a = 3; print a; } print a; print b;
PAssignShadow ==
    << Var("a", Num(1)),
       Var("b", Num(7)),
       BlockStatement(<< Var("a", Num(2)),
                         ExpressionStatement(Assignment(1, "a", Num(3))),
                         PrintStatement(Identifier(2, "a")) >>),
       PrintStatement(Identifier(3, "a")),
       PrintStatement(Identifier(4, "b")) >>

\* var a = 0; print (a = 1, b, a = 2); print a;      (b is not declared)
PCommaError ==
    << Var("a", Num(0)),
       PrintStatement(Comma(<< Assignment(1, "a", Num(1)),
                               Identifier(2, "b"),
                               Assignment(3, "a", Num(2)) >>)),
       PrintStatement(Identifier(4, "a")) >>

Programs ==
    << PShadow, PFirstClass, PCallResult, PCounter, PBlockCounter, PUninit,
       PUninitInner, PAssignUndeclared, PTopReturn, PBlockError, PReturnNested,
       PCallInBlock, PErrorInBody, PPlainCall, PRecursive, PGlobalCounter,
       PTruthiness, PLogical, PComma, PArityMatch, PArityMismatch,
       PFunShadow, PClockShadow, PAssignShadow, PCommaError >>

\* SystemTime::now() as seconds since the epoch, read by clock()
ClockValues == {1000, 1001}

\* ---------------------------------------------------------------- sources
\* Token sequences as the scanner yields them, the Eof token last.
MaxOperators == 2     \* infix operators in one expression of ChainSources
MaxUnary     == 2     \* prefix operators in one expression of UnarySources

ValueTokens ==
    {TokenNumber(0), TokenNumber(1), TokenString(""), TokenString("a"),
     TokenBoolean(TRUE), TokenBoolean(FALSE), Token("Nil")}

BinaryOperatorKinds ==
    {"Plus", "Minus", "Star", "Slash", "EqualEqual", "BangEqual",
     "Greater", "GreaterEqual", "Less", "LessEqual"}
LogicalOperatorKinds == {"And", "Or"}

\* every sequence over S of a length in from..to
SeqsOver(S, from, to) == UNION {[1..n -> S] : n \in from..to}

\* print l op r;
ComparisonSource(l, op, r) ==
    <<Token("Print"), l, Token(op), r, Token("Semicolon"), Token("Eof")>>
ComparisonSources ==
    {ComparisonSource(l, op, r) :
        l \in ValueTokens, op \in {"EqualEqual", "BangEqual"}, r \in ValueTokens}

\* a o1 b o2 c ... ;
OperandNames == <<"a", "b", "c", "d", "e", "f">>
ChainExpression(os) ==
    [i \in 1..(2 * Len(os) + 1) |->
        IF i % 2 = 1 THEN TokenIdentifier(OperandNames[(i + 1) \div 2])
        ELSE Token(os[i \div 2])]
ChainSource(os) == ChainExpression(os) \o <<Token("Semicolon"), Token("Eof")>>
OperatorSeqs == SeqsOver(BinaryOperatorKinds \cup LogicalOperatorKinds, 1, MaxOperators)
ChainSources == {ChainSource(os) : os \in OperatorSeqs}

\* print op1 op2 ... x;
UnarySource(ops, x) ==
    <<Token("Print")>> \o [i \in 1..Len(ops) |-> Token(ops[i])]
        \o <<x, Token("Semicolon"), Token("Eof")>>
UnaryOperatorSeqs == SeqsOver({"Bang", "Minus"}, 0, MaxUnary)
UnarySources == {UnarySource(ops, x) : ops \in UnaryOperatorSeqs, x \in ValueTokens}

\* fun f() { return v; } print f();     (v: the tokens of the value, or none)
FunReturnSource(v) ==
    <<Token("Fun"), TokenIdentifier("f"), Token("LeftParen"), Token("RightParen"),
      Token("LeftBrace"), Token("Return")>> \o v \o
    <<Token("Semicolon"), Token("RightBrace"),
      Token("Print"), TokenIdentifier("f"), Token("LeftParen"), Token("RightParen"),
      Token("Semicolon"), Token("Eof")>>
ReturnSources ==
    {FunReturnSource(<<>>), FunReturnSource(<<Token("Nil")>>),
     FunReturnSource(<<TokenNumber(1)>>)}

\* print 5 == 5;
FiveEqualsFive == ComparisonSource(TokenNumber(5), "EqualEqual", TokenNumber(5))

Sources ==
    ComparisonSources \cup ChainSources \cup UnarySources \cup ReturnSources
        \cup {FiveEqualsFive}

\* ---------------------------------------------------------------- the scanner
\* Scanner of loxrustlib (scan.rs).  A source text is a sequence of characters,
\* each a one-character string; s is the Scanner: reader holds the characters
\* not yet read, line the line counter.
ScannerNew(string) == [reader |-> string, line |-> 1]

\* What one pull gives.  t is "Ok" for Some(Ok(token)), "Err" for
\* Some(Err(error)) and "Panic" for a pull that aborted the process.
\* history: first is the number of characters that were unread when the first
\* character of the item was read (0 for Eof, which has none).
ScanOk(kind, lexeme, line, first) ==
    [t |-> "Ok", kind |-> kind, lexeme |-> lexeme, line |-> line, msg |-> "",
     first |-> first]
ScanErr(msg, line, first) ==
    [t |-> "Err", kind |-> "", lexeme |-> <<>>, line |-> line, msg |-> msg,
     first |-> first]
ScanPanic(lexeme, line, first) ==
    [t |-> "Panic", kind |-> "", lexeme |-> lexeme, line |-> line,
     msg |-> "unwrap on an Err value", first |-> first]

Pulled(s, item) == [s |-> s, item |-> item]

\* self.reader.next() when a character is there
reader_next(s) == [s EXCEPT !.reader = Tail(@)]

peek_match(s, expected_char) ==
    Len(s.reader) > 0 /\ s.reader[1] = expected_char

Digits == {"0", "1", "2", "3", "4", "5", "6", "7", "8", "9"}
Letters ==
    {"a", "b", "c", "d", "e", "f", "g", "h", "i", "j", "k", "l", "m", "n", "o",
     "p", "q", "r", "s", "t", "u", "v", "w", "x", "y", "z"}

is_digit(c) == c \in Digits
is_alphabetical(alpha_char) == alpha_char \in Letters \/ alpha_char = "_"
is_alphanumeric(c) == is_alphabetical(c) \/ is_digit(c)

create_token_str(s, kind, lexeme, first) == ScanOk(kind, lexeme, s.line, first)

\* the loop of create_string_token; the token is made with self.line as it is
\* after the loop
RECURSIVE create_string_token(_, _, _)
create_string_token(s, buf, first) ==
    IF Len(s.reader) = 0
    THEN Pulled(s, ScanErr("Unterminated string", s.line, first))
    ELSE IF s.reader[1] = "\""
    THEN Pulled(reader_next(s), ScanOk("String", buf, s.line, first))
    ELSE IF s.reader[1] = "\\"
    THEN IF peek_match(reader_next(s), "\"")
         THEN create_string_token(reader_next(reader_next(s)), Append(buf, "\""), first)
         ELSE create_string_token(reader_next(s), buf, first)
    ELSE create_string_token(
            [reader |-> Tail(s.reader),
             line |-> IF s.reader[1] = "\n" THEN s.line + 1 ELSE s.line],
            Append(buf, s.reader[1]), first)

\* `lexeme.parse()` to f64, for a lexeme of digits and dots that starts with a
\* digit: the conversion takes digits, at most one dot, digits
RECURSIVE Dots(_)
Dots(lexeme) ==
    IF Len(lexeme) = 0 THEN 0
    ELSE (IF Head(lexeme) = "." THEN 1 ELSE 0) + Dots(Tail(lexeme))

parse_is_ok(lexeme) == Dots(lexeme) <= 1

\* `TokenKind::Number(lexeme.parse().unwrap())`
number_token(s, lexeme, first) ==
    IF parse_is_ok(lexeme) THEN ScanOk("Number", lexeme, s.line, first)
    ELSE ScanPanic(lexeme, s.line, first)

RECURSIVE create_number_token(_, _, _)
create_number_token(s, buf, first) ==
    IF Len(s.reader) > 0 /\ (is_digit(s.reader[1]) \/ s.reader[1] = ".")
    THEN create_number_token(reader_next(s), Append(buf, s.reader[1]), first)
    ELSE Pulled(s, number_token(s, buf, first))

match_keyword(identifier) ==
    CASE identifier = <<"a", "n", "d">>                -> "And"
      [] identifier = <<"c", "l", "a", "s", "s">>      -> "Class"
      [] identifier = <<"e", "l", "s", "e">>           -> "Else"
      [] identifier = <<"f", "a", "l", "s", "e">>      -> "Boolean"
      [] identifier = <<"f", "o", "r">>                -> "For"
      [] identifier = <<"f", "u", "n">>                -> "Fun"
      [] identifier = <<"i", "f">>                     -> "If"
      [] identifier = <<"n", "i", "l">>                -> "Nil"
      [] identifier = <<"o", "r">>                     -> "Or"
      [] identifier = <<"p", "r", "i", "n", "t">>      -> "Print"
      [] identifier = <<"s", "u", "p", "e", "r">>      -> "Super"
      [] identifier = <<"t", "h", "i", "s">>           -> "This"
      [] identifier = <<"t", "r", "u", "e">>           -> "Boolean"
      [] identifier = <<"v", "a", "r">>                -> "Var"
      [] identifier = <<"w", "h", "i", "l", "e">>      -> "While"
      [] identifier = <<"r", "e", "t", "u", "r", "n">> -> "Return"
      [] OTHER                                         -> "Identifier"

RECURSIVE create_identifier_token(_, _, _)
create_identifier_token(s, buf, first) ==
    IF Len(s.reader) > 0 /\ is_alphanumeric(s.reader[1])
    THEN create_identifier_token(reader_next(s), Append(buf, s.reader[1]), first)
    ELSE Pulled(s, ScanOk(match_keyword(buf), buf, s.line, first))

\* self.reader.find(|&next_c| next_c == '\n'): the reader after the search
RECURSIVE reader_find_newline(_)
reader_find_newline(reader) ==
    IF Len(reader) = 0 THEN <<>>
    ELSE IF Head(reader) = "\n" THEN Tail(reader)
    ELSE reader_find_newline(Tail(reader))

has_newline(reader) == \E i \in 1..Len(reader) : reader[i] = "\n"

Eof(s) == ScanOk("Eof", <<"e", "o", "f">>, s.line, 0)

\* `match self.peek_match('=')`: the two-character token, whose second
\* character is read, or the one-character token
one_or_two(s, c, two, one, first) ==
    IF peek_match(s, "=")
    THEN Pulled(reader_next(s), create_token_str(s, two, <<c, "=">>, first))
    ELSE Pulled(s, create_token_str(s, one, <<c>>, first))

SingleCharacterKind(c) ==
    CASE c = "(" -> "LeftParen"
      [] c = ")" -> "RightParen"
      [] c = "{" -> "LeftBrace"
      [] c = "}" -> "RightBrace"
      [] c = "," -> "Comma"
      [] c = "." -> "Dot"
      [] c = "-" -> "Minus"
      [] c = "+" -> "Plus"
      [] c = ";" -> "Semicolon"
      [] c = "*" -> "Star"

\* one turn of the loop of match_next_token, c being the character read and s
\* the scanner after reading it
RECURSIVE Scanner_match_next_token(_)
match_character(s, c, first) ==
    CASE c \in {"(", ")", "{", "}", ",", ".", "-", "+", ";", "*"} ->
            Pulled(s, create_token_str(s, SingleCharacterKind(c), <<c>>, first))
      [] c = "!" -> one_or_two(s, c, "BangEqual", "Bang", first)
      [] c = "=" -> one_or_two(s, c, "EqualEqual", "Equal", first)
      [] c = "<" -> one_or_two(s, c, "LessEqual", "Less", first)
      [] c = ">" -> one_or_two(s, c, "GreaterEqual", "Greater", first)
      [] c = "/" ->
            IF ~peek_match(s, "/")
            THEN Pulled(s, create_token_str(s, "Slash", <<c>>, first))
            ELSE IF has_newline(s.reader)
            THEN Scanner_match_next_token(
                    [s EXCEPT !.reader = reader_find_newline(@)])
            ELSE Pulled([s EXCEPT !.reader = <<>>], Eof(s))
      [] c \in {" ", "\r", "\t"} -> Scanner_match_next_token(s)
      [] c = "\n" -> Scanner_match_next_token([s EXCEPT !.line = @ + 1])
      [] c = "\"" -> create_string_token(s, <<>>, first)
      [] is_digit(c) -> create_number_token(s, <<c>>, first)
      [] is_alphabetical(c) -> create_identifier_token(s, <<c>>, first)
      [] OTHER -> Pulled(s, ScanErr("Unknown character", s.line, first))

Scanner_match_next_token(s) ==
    IF Len(s.reader) = 0 THEN Pulled(s, Eof(s))
    ELSE match_character(reader_next(s), s.reader[1], Len(s.reader))

\* Iterator::next of Scanner
Scanner_next(s) == Scanner_match_next_token(s)

\* Scanner of the root crate (src/src/scan.rs), the one with peek().  It reads
\* characters through a queue next_chars of characters looked at ahead and
\* keeps the token peek() has produced in next_token (<<>> is None).  Token
\* kinds are written as loxrustlib spells them (COMMA is Comma, EOF is Eof).
RootScannerNew(string) ==
    [reader |-> string, next_chars |-> <<>>, line |-> 1, next_token |-> <<>>]

\* the Option<char> that pop_char and peek_char return (<<>> is None)
front_char(s) ==
    IF Len(s.next_chars) > 0 THEN <<s.next_chars[1]>>
    ELSE IF Len(s.reader) > 0 THEN <<s.reader[1]>>
    ELSE <<>>

\* the scanner after pop_char
pop_char(s) ==
    IF Len(s.next_chars) > 0 THEN [s EXCEPT !.next_chars = Tail(@)]
    ELSE IF Len(s.reader) > 0 THEN [s EXCEPT !.reader = Tail(@)]
    ELSE s

\* the scanner after peek_char: a character taken from the reader waits in
\* next_chars
peek_char(s) ==
    IF Len(s.next_chars) > 0 \/ Len(s.reader) = 0 THEN s
    ELSE [s EXCEPT !.next_chars = <<s.reader[1]>>, !.reader = Tail(@)]

next_char_matches(s, expected_char) == front_char(s) = <<expected_char>>

\* history: the characters not yet handed out
Unread(s) == Len(s.next_chars) + Len(s.reader)

RECURSIVE root_create_string_token(_, _, _)
root_create_string_token(s, buf, first) ==
    IF front_char(s) = <<>>
    THEN Pulled(s, ScanErr("Unterminated string", s.line, first))
    ELSE IF front_char(s) = <<"\"">>
    THEN Pulled(pop_char(s), ScanOk("String", buf, s.line, first))
    ELSE root_create_string_token(
            [pop_char(s) EXCEPT
                !.line = IF front_char(s) = <<"\n">> THEN @ + 1 ELSE @],
            Append(buf, front_char(s)[1]), first)

RECURSIVE root_create_number_token(_, _, _)
root_create_number_token(s, buf, first) ==
    IF front_char(s) # <<>> /\ (is_digit(front_char(s)[1]) \/ front_char(s) = <<".">>)
    THEN root_create_number_token(pop_char(s), Append(buf, front_char(s)[1]), first)
    ELSE Pulled(peek_char(s), number_token(s, buf, first))

RECURSIVE root_create_identifier_token(_, _, _)
root_create_identifier_token(s, buf, first) ==
    IF front_char(s) # <<>> /\ is_alphanumeric(front_char(s)[1])
    THEN root_create_identifier_token(pop_char(s), Append(buf, front_char(s)[1]), first)
    ELSE Pulled(peek_char(s), ScanOk(match_keyword(buf), buf, s.line, first))

\* `match self.next_char_matches('=')`: the character looked at stays in
\* next_chars whichever token is made
root_one_or_two(s, c, two, one, first) ==
    IF next_char_matches(s, "=")
    THEN Pulled(peek_char(s), ScanOk(two, <<c, "=">>, s.line, first))
    ELSE Pulled(peek_char(s), ScanOk(one, <<c>>, s.line, first))

\* the comment arm: `self.reader.find(..)` searches the reader, not next_chars,
\* where the second slash still waits
RECURSIVE root_match_next_token(_)
root_comment(s) ==
    IF has_newline(s.reader)
    THEN root_match_next_token([s EXCEPT !.reader = reader_find_newline(@)])
    ELSE Pulled([s EXCEPT !.reader = <<>>], Eof(s))

root_match_character(s, c, first) ==
    CASE c \in {"(", ")", "{", "}", ",", ".", "-", "+", ";", "*"} ->
            Pulled(s, ScanOk(SingleCharacterKind(c), <<c>>, s.line, first))
      [] c = "!" -> root_one_or_two(s, c, "BangEqual", "Bang", first)
      [] c = "=" -> root_one_or_two(s, c, "EqualEqual", "Equal", first)
      [] c = "<" -> root_one_or_two(s, c, "LessEqual", "Less", first)
      [] c = ">" -> root_one_or_two(s, c, "GreaterEqual", "Greater", first)
      [] c = "/" ->
            IF next_char_matches(s, "/") THEN root_comment(peek_char(s))
            ELSE Pulled(peek_char(s), ScanOk("Slash", <<c>>, s.line, first))
      [] c \in {" ", "\r", "\t"} -> root_match_next_token(s)
      [] c = "\n" -> root_match_next_token([s EXCEPT !.line = @ + 1])
      [] c = "\"" -> root_create_string_token(s, <<>>, first)
      [] is_digit(c) -> root_create_number_token(s, <<c>>, first)
      [] is_alphabetical(c) -> root_create_identifier_token(s, <<c>>, first)
      [] OTHER -> Pulled(s, ScanErr("Unknown character", s.line, first))

root_match_next_token(s) ==
    IF front_char(s) = <<>> THEN Pulled(s, Eof(s))
    ELSE root_match_character(pop_char(s), front_char(s)[1], Unread(s))

\* Iterator::next: the token peek() kept, or else the next one scanned
root_next(s) ==
    IF s.next_token # <<>>
    THEN Pulled([s EXCEPT !.next_token = <<>>], s.next_token[1])
    ELSE root_match_next_token(s)

\* `self.next()?.map(|t| { self.next_token = Some(t.clone()); t })`: only a
\* token is kept, an error is handed out and gone
peek_kept(r) ==
    IF r.item.t = "Ok" THEN Pulled([r.s EXCEPT !.next_token = <<r.item>>], r.item)
    ELSE r

peek(s) ==
    IF s.next_token # <<>> THEN Pulled(s, s.next_token[1])
    ELSE peek_kept(root_next(s))

\* --------------------------------------------------------------- the resolver
\* Resolver (resolver.rs).  rs is the Resolver: scopes is the Vec of scopes,
\* the innermost last, each a map from a name to `defined`; locals is the
\* locals map of the Interpreter it owns.  The methods give Res(rs, out).
ResolverNew == [scopes |-> <<>>, locals |-> <<>>, events |-> <<>>]

begin_scope(rs) == [rs EXCEPT !.scopes = Append(@, <<>>)]
end_scope(rs) ==
    [rs EXCEPT !.scopes = IF Len(@) = 0 THEN @ ELSE SubSeq(@, 1, Len(@) - 1)]

\* self.scopes.last_mut().map(|l| l.insert(name, false / true))
declare_var(rs, name) ==
    IF Len(rs.scopes) = 0 THEN rs
    ELSE [rs EXCEPT !.scopes[Len(rs.scopes)] = Put(@, name, FALSE)]
define_var(rs, name) ==
    IF Len(rs.scopes) = 0 THEN rs
    ELSE [rs EXCEPT !.scopes[Len(rs.scopes)] = Put(@, name, TRUE)]

\* Interpreter::resolve: self.locals.insert(expression_id, depth)
Interpreter_resolve(rs, expression_id, depth) ==
    [rs EXCEPT !.locals = Put(@, expression_id, depth)]

\* for (i, scope) in self.scopes.iter().rev().enumerate(): every scope that
\* holds the name records `self.scopes.len() - 1 - i`, the loop goes on
RECURSIVE resolve_local_from(_, _, _, _)
resolve_local_from(rs, expression_id, name, i) ==
    IF i >= Len(rs.scopes) THEN rs
    ELSE IF name \in DOMAIN rs.scopes[Len(rs.scopes) - i]
    THEN resolve_local_from(
            Interpreter_resolve(rs, expression_id, Len(rs.scopes) - 1 - i),
            expression_id, name, i + 1)
    ELSE resolve_local_from(rs, expression_id, name, i + 1)

resolve_local(rs, expression_id, name) ==
    resolve_local_from(rs, expression_id, name, 0)

\* history: one identifier or assignment expression met by the resolver; rs0
\* is the resolver when it was met, r what resolving it gave
LogResolved(rs0, r, k, id, name) ==
    Res([r.st EXCEPT !.events = Append(@,
            [k |-> k, id |-> id, name |-> name, scopes |-> rs0.scopes,
             out |-> r.out,
             recorded |-> IF id \in DOMAIN r.st.locals
                          THEN <<r.st.locals[id]>> ELSE <<>>])],
        r.out)

RECURSIVE resolve_expression(_, _)
RECURSIVE resolve_statement(_, _)

\* `self.resolve_expression(e)?` for each e of es from the i-th on
RECURSIVE resolve_expressions(_, _, _)
resolve_expressions(r, es, i) ==
    IF r.out.kind # "Ok" \/ i > Len(es) THEN r
    ELSE resolve_expressions(resolve_expression(r.st, es[i]), es, i + 1)

resolve_assignment(rs0, r, id, name) ==
    IF r.out.kind # "Ok" THEN r
    ELSE LogResolved(rs0, Res(resolve_local(r.st, id, name), Ok(Nil)),
                     "Assignment", id, name)

resolve_identifier(rs, id, name) ==
    IF Len(rs.scopes) > 0 /\ name \in DOMAIN rs.scopes[Len(rs.scopes)]
    THEN LogResolved(rs,
            Res(rs, Errored("Unable to read local variable in its own initializer",
                            name)),
            "Identifier", id, name)
    ELSE LogResolved(rs, Res(resolve_local(rs, id, name), Ok(Nil)),
                     "Identifier", id, name)

resolve_expression(rs, expr) ==
    CASE expr.k = "Assignment" ->
            resolve_assignment(rs, resolve_expression(rs, expr.e),
                               expr.id, expr.name)
      [] expr.k \in {"Binary", "Logical"} ->
            resolve_expressions(Res(rs, Ok(Nil)), <<expr.l, expr.r>>, 1)
      [] expr.k = "Unary" -> resolve_expression(rs, expr.r)
      [] expr.k = "Comma" ->
            resolve_expressions(Res(rs, Ok(Nil)), expr.es, 1)
      [] expr.k = "Grouping" -> resolve_expression(rs, expr.e)
      [] expr.k = "Call" ->
            resolve_expressions(Res(rs, Ok(Nil)),
                                <<expr.callee>> \o expr.args, 1)
      [] expr.k = "Identifier" ->
            resolve_identifier(rs, expr.id, expr.name)
      [] OTHER -> Res(rs, Ok(Nil))

\* Resolver::resolve: `self.resolve_statement(s)?` for each statement
RECURSIVE resolve(_, _, _)
resolve(r, statements, i) ==
    IF r.out.kind # "Ok" \/ i > Len(statements) THEN r
    ELSE resolve(resolve_statement(r.st, statements[i]), statements, i + 1)

RECURSIVE resolve_parameters(_, _, _)
resolve_parameters(rs, parameters, i) ==
    IF i > Len(parameters) THEN rs
    ELSE resolve_parameters(define_var(declare_var(rs, parameters[i]), parameters[i]),
                            parameters, i + 1)

\* `self.resolve(body)?; self.end_scope();`: an error leaves the scope open
function_resolved(r) ==
    IF r.out.kind # "Ok" THEN r ELSE Res(end_scope(r.st), Ok(Nil))

resolve_function(rs, parameters, body) ==
    function_resolved(
        resolve(Res(resolve_parameters(begin_scope(rs), parameters, 1), Ok(Nil)),
                body, 1))

\* `initializer.as_ref().map(|init| self.resolve_expression(init));` what the
\* initializer gave is dropped, what it did to the resolver stays
resolve_initializer(rs, hasInit, initializer) ==
    IF hasInit THEN resolve_expression(rs, initializer).st ELSE rs

\* `self.resolve_statement(el)?` when there is an else branch
resolve_else(r, hasElse, el) ==
    IF r.out.kind # "Ok" \/ ~hasElse THEN r ELSE resolve_statement(r.st, el)

\* the statement after the condition of an if or a while
resolve_after(r, stmt) ==
    IF r.out.kind # "Ok" THEN r ELSE resolve_statement(r.st, stmt)

resolve_statement(rs, stmt) ==
    CASE stmt.k \in {"ExpressionStatement", "PrintStatement"} ->
            resolve_expression(rs, stmt.e)
      [] stmt.k = "VariableDeclaration" ->
            Res(define_var(resolve_initializer(declare_var(rs, stmt.name),
                                               stmt.hasInit, stmt.e),
                           stmt.name),
                Ok(Nil))
      [] stmt.k = "BlockStatement" -> resolve(Res(rs, Ok(Nil)), stmt.ss, 1)
      [] stmt.k = "IfStatement" ->
            resolve_else(resolve_after(resolve_expression(rs, stmt.c), stmt.t),
                         stmt.hasElse, stmt.el)
      [] stmt.k = "WhileStatement" ->
            resolve_after(resolve_expression(rs, stmt.c), stmt.body)
      [] stmt.k = "FunDeclaration" ->
            resolve_function(define_var(declare_var(rs, stmt.name), stmt.name),
                             stmt.parameters, stmt.body)
      [] stmt.k = "ReturnStatement" ->
            IF stmt.e = Nil THEN Res(rs, Ok(Nil))
            ELSE resolve_expression(rs, stmt.e)

\* ------------------------------------------------------------ state machine
VARIABLES
    heap,          \* the Environment objects, by frame id
    environments,  \* Interpreter.environments: frame ids, front first
    locals,        \* Interpreter.locals: expression id -> depth
    printed,       \* the lines written by print statements
    outcome,       \* what the last interpret call returned
    panicked,      \* the process aborted in a panic
    hist,          \* history: the programs interpreted so far (indices)
    nextScope,     \* history: number of the next block or call
    log,           \* history: what the last interpret call did
    tokens,        \* the tokens of the source text handed to the parser
    parsed,        \* what Parser::parse returned for them
    source,        \* the characters of the source text handed to the scanner
    scanner,       \* the Scanner made for them
    yielded,       \* history: what each pull of the scanner gave, in order
    resolving,     \* the statements handed to the resolver
    resolution     \* what Resolver::resolve returned for them

vars == <<heap, environments, locals, printed, outcome, panicked, hist, nextScope,
          log, tokens, parsed, source, scanner, yielded, resolving, resolution>>

interpreterVars ==
    <<heap, environments, locals, printed, outcome, panicked, hist, nextScope, log>>
parserVars == <<tokens, parsed>>
scannerVars == <<source, scanner, yielded>>
resolverVars == <<resolving, resolution>>

\* no source text was handed to a scanner
NotResolved ==
    [done |-> FALSE, out |-> Ok(Nil), scopes |-> <<>>, locals |-> <<>>,
     events |-> <<>>]

NoScanner ==
    /\ source = <<>>
    /\ scanner = ScannerNew(<<>>)
    /\ yielded = <<>>
    /\ resolving = <<>>
    /\ resolution = NotResolved

EmptyLog ==
    [reads |-> <<>>, assigns |-> <<>>, blocks |-> <<>>, calls |-> <<>>,
     bodies |-> <<>>, callees |-> <<>>, trace |-> <<>>, tests |-> <<>>,
     binops |-> <<>>, logicals |-> <<>>, commas |-> <<>>,
     callexprs |-> <<>>, fundecls |-> <<>>]

\* no parse has run
NotParsed == [done |-> FALSE, ok |-> FALSE, val |-> <<>>, msg |-> "", ts |-> <<>>]

\* Interpreter::new(): one frame, the globals, holding the callable `clock`
InterpreterNew ==
    /\ heap = << [parent |-> NoEnv, variables |-> <<>>,
                  callables |-> [x \in {"clock"} |-> ClockFunc]] >>
    /\ environments = <<1>>
    /\ locals = <<>>
    /\ printed = <<>>
    /\ outcome = Ok(Nil)
    /\ panicked = FALSE
    /\ hist = <<>>
    /\ nextScope = 1
    /\ log = EmptyLog

\* a new interpreter that is handed statement lists
Init ==
    /\ InterpreterNew
    /\ tokens = <<>>
    /\ parsed = NotParsed
    /\ NoScanner

\* the evaluator's state at the start of an interpret call
StartState(now) ==
    [heap |-> heap, environments |-> environments, locals |-> locals,
     printed |-> printed, now |-> now,
     \* history
     act |-> 0, scope |-> 0, nextScope |-> nextScope, active |-> {0},
     fn |-> NoCallable, args |-> <<>>, depth |-> 0,
     reads |-> <<>>, assigns |-> <<>>, blocks |-> <<>>, calls |-> <<>>,
     bodies |-> <<>>, callees |-> <<>>, trace |-> <<>>, tests |-> <<>>,
     binops |-> <<>>, logicals |-> <<>>, commas |-> <<>>,
     callexprs |-> <<>>, fundecls |-> <<>>]

\* the interpreter after an interpret call that gave r; p names the program
Interpreted(r, p) ==
    /\ r.out.kind # "Diverged"
    /\ heap' = r.st.heap
    /\ environments' = r.st.environments
    /\ locals' = r.st.locals
    /\ printed' = r.st.printed
    /\ outcome' = r.out
    /\ panicked' = (r.out.kind = "Panicked")
    /\ hist' = Append(hist, p)
    /\ nextScope' = r.st.nextScope
    /\ log' = [f \in DOMAIN EmptyLog |-> r.st[f]]

\* interpreter.interpret(statements) on the parsed program p
Interpret(p, now) ==
    /\ ~panicked
    /\ Len(hist) < MaxSteps
    /\ \E r \in {interpret(StartState(now), Programs[p])} : Interpreted(r, p)
    /\ UNCHANGED <<tokens, parsed>>
    /\ UNCHANGED <<scannerVars, resolverVars>>

Next == \E p \in 1..Len(Programs), now \in ClockValues : Interpret(p, now)

Spec == Init /\ [][Next]_vars

\* A source text goes through the parser and then, if it parsed, through a
\* new interpreter.
SourceInit ==
    /\ InterpreterNew
    /\ tokens \in Sources
    /\ parsed = NotParsed
    /\ NoScanner

\* parser.parse()
Parse ==
    /\ ~parsed.done
    /\ \E r \in {parse(tokens)} :
           parsed' = [done |-> TRUE, ok |-> r.ok,
                      val |-> IF r.ok THEN r.val ELSE <<>>,
                      msg |-> r.msg, ts |-> r.ts]
    /\ UNCHANGED <<heap, environments, locals, printed, outcome, panicked, hist,
                   nextScope, log, tokens>>
    /\ UNCHANGED <<scannerVars, resolverVars>>

\* interpreter.interpret(statements) on what the parser returned
Run(now) ==
    /\ parsed.done
    /\ parsed.ok
    /\ hist = <<>>
    /\ \E r \in {interpret(StartState(now), parsed.val)} : Interpreted(r, 0)
    /\ UNCHANGED <<tokens, parsed>>
    /\ UNCHANGED <<scannerVars, resolverVars>>

SourceNext == Parse \/ \E now \in ClockValues : Run(now)

SourceSpec == SourceInit /\ [][SourceNext]_vars

\* A source text is handed to Scanner::new and the scanner is pulled again and
\* again, also after it has given Eof.
MaxInput      == 4    \* characters in a source text
MaxExtraPulls == 2    \* pulls beyond one for each character

MaxLexemes    == 2    \* lexemes in a source text made of lexemes

InputChars == {"=", "!", "/", "\n", "\"", "1", ".", "a", "@"}

\* lexemes, each with the kind of the token it is
Lexeme(text, kind) == [text |-> text, kind |-> kind]
Lexemes ==
    {Lexeme(<<"=", "=">>, "EqualEqual"), Lexeme(<<"=">>, "Equal"),
     Lexeme(<<"!", "=">>, "BangEqual"), Lexeme(<<"!">>, "Bang"),
     Lexeme(<<"<", "=">>, "LessEqual"), Lexeme(<<"<">>, "Less"),
     Lexeme(<<">", "=">>, "GreaterEqual"), Lexeme(<<">">>, "Greater"),
     Lexeme(<<"/">>, "Slash"), Lexeme(<<"1", ".", "5">>, "Number"),
     Lexeme(<<"a", "1">>, "Identifier"), Lexeme(<<"o", "r">>, "Or"),
     Lexeme(<<"\"", "a", "\"">>, "String")}
LexemeSeqs == SeqsOver(Lexemes, 1, MaxLexemes)

\* the text of the lexemes ls from the i-th on, one space between two
RECURSIVE LexemeText(_, _)
LexemeText(ls, i) ==
    IF i > Len(ls) THEN <<>>
    ELSE IF i = Len(ls) THEN ls[i].text
    ELSE ls[i].text \o <<" ">> \o LexemeText(ls, i + 1)

LexemeInputs == {LexemeText(ls, 1) : ls \in LexemeSeqs}

Inputs == SeqsOver(InputChars, 0, MaxInput) \cup LexemeInputs

\* history: one pull, op naming the method called
Yield(op, item) == [op |-> op, item |-> item]

ScanInit ==
    /\ InterpreterNew
    /\ tokens = <<>>
    /\ parsed = NotParsed
    /\ source \in Inputs
    /\ scanner = ScannerNew(source)
    /\ yielded = <<>>
    /\ resolving = <<>>
    /\ resolution = NotResolved

\* a pull that aborted the process is the last one
Aborted == Len(yielded) > 0 /\ yielded[Len(yielded)].item.t = "Panic"

\* scanner.next()
Pull ==
    /\ ~Aborted
    /\ Len(yielded) < Len(source) + MaxExtraPulls
    /\ \E r \in {Scanner_next(scanner)} :
          /\ scanner' = r.s
          /\ yielded' = Append(yielded, Yield("next", r.item))
    /\ UNCHANGED <<interpreterVars, parserVars, source, resolverVars>>

ScanNext == Pull

ScanSpec == ScanInit /\ [][ScanNext]_vars

\* the caller goes on pulling: a pull that can be made is made
ScanLiveSpec == ScanSpec /\ WF_vars(Pull)

\* A source text is handed to the scanner of the root crate, which is then
\* asked with peek() and next() in any order.
MaxRootInput == 2     \* characters in a source text
MaxCalls     == 4     \* calls of peek() and next() on one scanner

RootInputs == SeqsOver(InputChars, 0, MaxRootInput) \cup LexemeInputs

RootScanInit ==
    /\ InterpreterNew
    /\ tokens = <<>>
    /\ parsed = NotParsed
    /\ source \in RootInputs
    /\ scanner = RootScannerNew(source)
    /\ yielded = <<>>
    /\ resolving = <<>>
    /\ resolution = NotResolved

RootCalled(op, r) ==
    /\ scanner' = r.s
    /\ yielded' = Append(yielded, Yield(op, r.item))
    /\ UNCHANGED <<interpreterVars, parserVars, source, resolverVars>>

\* scanner.peek()
RootPeek ==
    /\ ~Aborted
    /\ Len(yielded) < MaxCalls
    /\ \E r \in {peek(scanner)} : RootCalled("peek", r)

\* scanner.next()
RootNext ==
    /\ ~Aborted
    /\ Len(yielded) < MaxCalls
    /\ \E r \in {root_next(scanner)} : RootCalled("next", r)

RootScanNext == RootPeek \/ RootNext

RootScanSpec == RootScanInit /\ [][RootScanNext]_vars

\* A statement list is handed to a new Resolver.
MaxNest == 2          \* function declarations around the innermost statements

\* how a function declares x in the scope of its body: not at all, as a
\* parameter, or by `var x = 0;` as its first statement
DeclarationModes == {"none", "param", "var"}

\* the innermost statements
\*   read:   print x;
\*   assign: x = 0;
\*   own:    var x = x;
\*   after:  var x = 1; print x;
\*   other:  print x + y;
Uses == {"read", "assign", "own", "after", "other"}

UseStatements(u) ==
    CASE u = "read"   -> << PrintStatement(Identifier(1, "x")) >>
      [] u = "assign" -> << ExpressionStatement(Assignment(1, "x", Num(0))) >>
      [] u = "own"    -> << Var("x", Identifier(1, "x")) >>
      [] u = "after"  -> << Var("x", Num(1)), PrintStatement(Identifier(1, "x")) >>
      [] u = "other"  -> << PrintStatement(Binary(Identifier(1, "x"), "+",
                                                  Identifier(2, "y"))) >>

\* the statements at nesting level l of the program with modes ms and use u:
\* fun f(x?) { var x = 0;? ... fun f(x?) { ... use ... } }
RECURSIVE NestedStatements(_, _, _)
NestedFunction(ms, u, l) ==
    FunDeclaration("f", IF ms[l] = "param" THEN <<"x">> ELSE <<>>,
        (IF ms[l] = "var" THEN << Var("x", Num(0)) >> ELSE <<>>)
            \o NestedStatements(ms, u, l))

NestedStatements(ms, u, l) ==
    IF l >= Len(ms) THEN UseStatements(u)
    ELSE << NestedFunction(ms, u, l + 1) >>

ResolverPrograms ==
    {NestedStatements(ms, u, 0) :
        ms \in SeqsOver(DeclarationModes, 0, MaxNest), u \in Uses}

ResolveInit ==
    /\ InterpreterNew
    /\ tokens = <<>>
    /\ parsed = NotParsed
    /\ source = <<>>
    /\ scanner = ScannerNew(<<>>)
    /\ yielded = <<>>
    /\ resolving \in ResolverPrograms
    /\ resolution = NotResolved

\* resolver.resolve(statements)
Resolve ==
    /\ ~resolution.done
    /\ \E r \in {resolve(Res(ResolverNew, Ok(Nil)), resolving, 1)} :
          resolution' = [done |-> TRUE, out |-> r.out, scopes |-> r.st.scopes,
                         locals |-> r.st.locals, events |-> r.st.events]
    /\ UNCHANGED <<interpreterVars, parserVars, scannerVars, resolving>>

ResolveNext == Resolve

ResolveSpec == ResolveInit /\ [][ResolveNext]_vars

\* ------------------------------------------------------------------ claims
Range(f) == {f[i] : i \in DOMAIN f}

\* bs is a Bindings value (front frame first)
Declared(bs) == \E i \in DOMAIN bs : bs[i] # Undeclared
Innermost(bs) ==
    bs[CHOOSE i \in DOMAIN bs :
          bs[i] # Undeclared /\ \A j \in 1..(i - 1) : bs[j] = Undeclared]

FunNames ==
    {"clock", "make", "add", "mk", "one", "outer", "count", "inc", "g", "h",
     "e", "k", "r", "outer2", "cnt"}
DenotesCallable(v) == \E name \in FunNames : v = FnRef(name)

\* C1: reading a name yields the value of the binding in the innermost frame
\* of the current chain that declares it (an inner declaration shadows an
\* outer one while its block is active); the program PShadow prints `inner`
\* and then `global`.
C1_ReadYieldsInnermostBinding ==
    /\ \A i \in 1..Len(log.reads) :
         LET ev == log.reads[i]
         IN  (/\ ev.depth = 0
              /\ ~ev.isCallable
              /\ Declared(ev.bindings)
              /\ Innermost(ev.bindings) # NoneV)
             => ev.out = Ok(Innermost(ev.bindings))
    /\ hist = <<1>> => printed = <<"inner", "global">>

\* C2: every call of a user-defined function runs its body in a chain made
\* of one fresh frame in front of the function's captured chain, and in that
\* chain every parameter name resolves to the argument at the same position.
C2_CallBindsParametersInFreshFrame ==
    \A i \in 1..Len(log.bodies) :
        LET ev == log.bodies[i]
        IN  /\ Len(ev.envs) = Len(ev.parent_env) + 1
            /\ Tail(ev.envs) = ev.parent_env
            /\ ev.envs[1] \notin Range(ev.parent_env) \cup Range(ev.caller_env)
            /\ ev.frontVars = Range(ev.parameters)
            /\ \A j \in 1..Len(ev.parameters) : ev.lookup[j] = ev.args[j]

\* C3: a `return v` executed in a function body ends the innermost active
\* call: no later statement of that activation executes, the call expression
\* evaluates to v, no call expression yields Returned, and an Errored outcome
\* of the body is the outcome of the call expression.
C3_ReturnEndsInnermostCall ==
    /\ \A i \in 1..Len(log.calls) :
         LET c == log.calls[i]
         IN  /\ c.out.kind # "Returned"
             /\ c.body.kind = "Returned" => c.out = Ok(c.body.val)
             /\ c.body.kind = "Errored" => c.out = c.body
    /\ \A i \in 1..Len(log.trace) :
         (log.trace[i].ev = "returned" /\ log.trace[i].act > 0)
         => /\ \A j \in (i + 1)..Len(log.trace) : log.trace[j].act # log.trace[i].act
            /\ \E n \in 1..Len(log.calls) :
                 /\ log.calls[n].act = log.trace[i].act
                 /\ log.calls[n].out = Ok(log.trace[i].val)

\* a call of g has returned 7 from inside while / block / if / block, and the
\* statements after it did not print
C3_Witness ==
    /\ \E i \in 1..Len(log.calls) :
         /\ log.calls[i].name = "g"
         /\ log.calls[i].body = Returned(LiteralNumber(7))
         /\ log.calls[i].out = Ok(LiteralNumber(7))
    /\ \E i \in 1..Len(log.trace) :
         log.trace[i].ev = "returned" /\ log.trace[i].act > 0
    /\ hist = <<11>>
    /\ printed = <<"7", "next">>

\* C4: functions are first-class: PFirstClass prints 15, and a call whose
\* callee is not a bare function name succeeds in finding its callee whenever
\* the callee's value denotes a callable.
C4_FunctionValuesAreCallable ==
    /\ hist = <<2>> => printed = <<"15">>
    /\ \A i \in 1..Len(log.callees) :
         DenotesCallable(log.callees[i].value)
         => log.callees[i].out.msg \notin
               {"Call to undefined function", "Invalid identifier for function call"}

\* C5: after the block or call in which a function was declared has exited,
\* a call of the function reads the current value of a variable of its
\* defining scope, and an assignment it makes to such a variable is written
\* to that scope (so the next call sees it).
C5_ClosureWriteThrough ==
    /\ \A i \in 1..Len(log.reads) :
         LET ev == log.reads[i]
         IN  (/\ ev.declExited
              /\ ev.depth = 0
              /\ ~ev.isCallable
              /\ ev.defPos > 0
              /\ ev.bindings[ev.defPos] \notin {Undeclared, NoneV}
              /\ \A j \in 1..(ev.defPos - 1) : ev.bindings[j] = Undeclared)
             => ev.out = Ok(ev.bindings[ev.defPos])
    /\ \A i \in 1..Len(log.assigns) :
         LET ev == log.assigns[i]
         IN  (/\ ev.declExited
              /\ ev.depth = 0
              /\ ev.defPos > 0
              /\ ev.before[ev.defPos] # Undeclared
              /\ \A j \in 1..(ev.defPos - 1) : ev.before[j] = Undeclared)
             => /\ ev.out.kind = "Ok"
                /\ ev.after[ev.defPos] = ev.value

\* C6: after every execution of a Block (normal, Errored or Returned) the
\* current environment chain is the chain the block was entered in.
C6_BlockRestoresChain ==
    \A i \in 1..Len(log.blocks) : log.blocks[i].after = log.blocks[i].before

\* C7: after every call of a user-defined function (end of body, return or
\* runtime error) the current environment chain is the caller's chain as it
\* was immediately before the call.
C7_CallRestoresCallerChain ==
    \A i \in 1..Len(log.calls) :
        log.calls[i].kind = "lox" => log.calls[i].after = log.calls[i].before

\* C8: an assignment to a name that no frame of the current chain declares
\* yields Errored and creates no binding.
C8_AssignUndeclaredErrors ==
    \A i \in 1..Len(log.assigns) :
        LET ev == log.assigns[i]
        IN  ~Declared(ev.before)
            => ev.out.kind = "Errored" /\ ~Declared(ev.after)

\* C9: reading a declared but uninitialised variable is the error "Use of
\* uninitialized variable", decided at the innermost frame that declares the
\* name, and it is not the error given for an undeclared name.
C9_UninitializedReadError ==
    \A i \in 1..Len(log.reads) :
        LET ev == log.reads[i]
        IN  (ev.depth = 0 /\ ~ev.isCallable)
            => /\ (Declared(ev.bindings) /\ Innermost(ev.bindings) = NoneV)
                   => ev.out = Errored("Use of uninitialized variable", ev.name)
               /\ ~Declared(ev.bindings)
                   => /\ ev.out.kind = "Errored"
                      /\ ev.out.msg # "Use of uninitialized variable"

\* C10: a `return` executed outside any function call makes interpret return
\* an Errored outcome, and no top-level statement executes after it.
C10_TopLevelReturnIsError ==
    \A i \in 1..Len(log.trace) :
        (log.trace[i].ev = "returned" /\ log.trace[i].act = 0)
        => /\ outcome.kind = "Errored"
           /\ \A j \in (i + 1)..Len(log.trace) :
                ~(log.trace[j].ev = "stmt" /\ log.trace[j].act = 0)

\* the truthiness of the language: only Nil and Boolean(false) are falsey
Truthy(v) == v # Nil /\ v # LiteralBoolean(FALSE)

\* C11: an `if` runs its then-branch exactly when the value of its condition
\* is truthy (only Nil and Boolean(false) are falsey), otherwise its
\* else-branch if it has one; `while` enters its body by the same test.
C11_IfSelectsByTruthiness ==
    \A i \in 1..Len(log.tests) :
        (log.tests[i].branch = "then") <=> Truthy(log.tests[i].val)

\* C12: `nil == nil` is true; `==` between nil and a non-nil value is false
\* in either order; two values of the same type are equal exactly when they
\* are the same value; two non-nil values of different types give an error.
C12_EqualityOfValues ==
    \A i \in 1..Len(log.binops) :
        LET ev == log.binops[i]
        IN  ev.op = "=="
            => /\ (ev.l = Nil /\ ev.r = Nil) => ev.out = Ok(LiteralBoolean(TRUE))
               /\ ((ev.l = Nil) # (ev.r = Nil)) => ev.out = Ok(LiteralBoolean(FALSE))
               /\ (ev.l # Nil /\ ev.r # Nil /\ ev.l.k = ev.r.k)
                     => ev.out = Ok(LiteralBoolean(ev.l = ev.r))
               /\ (ev.l # Nil /\ ev.r # Nil /\ ev.l.k # ev.r.k)
                     => ev.out.kind = "Errored"

\* `print 0 == "";` was parsed and interpreted: the operands reached `==`
\* as a number and a string and the outcome is the error
C12_Witness ==
    /\ tokens = ComparisonSource(TokenNumber(0), "EqualEqual", TokenString(""))
    /\ hist = <<0>>
    /\ Len(log.binops) = 1
    /\ log.binops[1].l = LiteralNumber(0)
    /\ log.binops[1].r = LiteralString("")
    /\ outcome = Errored("Cannot compare unlike types", "")
    /\ printed = <<>>

\* C13: `a and b` with a falsey and `a or b` with a truthy give a's value
\* without evaluating b (no side effect of b occurs); in the other cases b is
\* evaluated once, after a, and its value is the result.  In PLogical the
\* assignments therefore happen in the order s, s, s, s t, s t, s.
C13_LogicalShortCircuit ==
    /\ \A i \in 1..Len(log.logicals) :
         LET ev == log.logicals[i]
         IN  IF (ev.op = "and" /\ ~Truthy(ev.l)) \/ (ev.op = "or" /\ Truthy(ev.l))
             THEN /\ ev.right = <<>>
                  /\ ev.out = Ok(ev.l)
                  /\ ev.assigns = ev.assignsLeft
             ELSE /\ Len(ev.right) = 1
                  /\ ev.out = ev.right[1]
                  /\ ev.assigns >= ev.assignsLeft
    /\ (hist = <<18>> /\ outcome.kind = "Ok")
         => /\ printed = <<"false", "nil", "1", "4", "5", "">>
            /\ [i \in 1..Len(log.assigns) |-> log.assigns[i].name]
                  = <<"s", "s", "s", "s", "t", "s", "t", "s">>

\* PLogical ran: its first `and` returned the falsey left value and its last
\* `or` the truthy left value, the fourth expression evaluated its right
\* operand
C13_Witness ==
    /\ hist = <<18>>
    /\ Len(log.logicals) = 6
    /\ log.logicals[1].op = "and" /\ log.logicals[1].right = <<>>
    /\ log.logicals[4].right = <<Ok(LiteralNumber(4))>>
    /\ log.logicals[6].op = "or" /\ log.logicals[6].out = Ok(LiteralString(""))
    /\ printed = <<"false", "nil", "1", "4", "5", "">>

\* C14: a comma expression (e1, ..., en) evaluates e1 to en in that order and
\* its value is the value of en; PComma therefore prints 2, 2 and 5
C14_CommaInOrder ==
    /\ \A i \in 1..Len(log.commas) :
         LET ev == log.commas[i]
         IN  /\ [j \in 1..Len(ev.evaluated) |-> ev.evaluated[j].i]
                  = [j \in 1..ev.n |-> j]
             /\ ev.out = ev.evaluated[ev.n].out
    /\ (hist = <<19>>) => printed = <<"2", "2", "5">>

\* C15: a call with a number of arguments other than the callee's arity is
\* Errored, no body starts, no argument is evaluated and the chain and every
\* binding are as before; with the right number the arguments are evaluated
\* left to right and the body starts after the last of them.  PArityMatch
\* therefore assigns 1, 2, 3 in that order and prints 2 and 3.
C15_ArityCheckedBeforeArguments ==
    /\ \A i \in 1..Len(log.callexprs) :
         LET ev == log.callexprs[i]
         IN  IF ev.nargs # ev.arity
             THEN /\ ev.out.kind = "Errored"
                  /\ ev.bodies1 = ev.bodies0
                  /\ ev.assigns1 = ev.assigns0
                  /\ ev.envsAfter = ev.envs
                  /\ ev.heapAfter = ev.heap
             ELSE ev.bodies1 > ev.bodiesArgs
                  => /\ Len(ev.x) = ev.nargs
                     /\ log.bodies[ev.bodiesArgs + 1].args = ev.x
                     /\ log.bodies[ev.bodiesArgs + 1].assigns = ev.assignsArgs
    /\ (hist = <<20>>)
         => /\ [i \in 1..Len(log.assigns) |-> log.assigns[i].value]
                  = <<LiteralNumber(1), LiteralNumber(2), LiteralNumber(3)>>
            /\ printed = <<"2", "3">>
    /\ (hist = <<21>>)
         => /\ outcome.kind = "Errored"
            /\ log.assigns = <<>>
            /\ printed = <<>>

\* PArityMismatch ran: g, of arity 2, was called with one argument inside a
\* block and the call was refused
C15_Witness ==
    /\ hist = <<21>>
    /\ Len(log.callexprs) = 1
    /\ log.callexprs[1].name = "g"
    /\ log.callexprs[1].nargs = 1 /\ log.callexprs[1].arity = 2
    /\ Len(log.callexprs[1].envs) = 2
    /\ outcome.kind = "Errored"

\* C16: a function declaration is Errored exactly when the front frame of the
\* chain already holds a callable of that name; a callable of an ancestor
\* frame is shadowed, so PFunShadow prints 2 and 1 and PClockShadow prints 0
C16_DeclarationErrorsOnlyInSameFrame ==
    /\ \A i \in 1..Len(log.fundecls) :
         (log.fundecls[i].out.kind = "Errored") <=> log.fundecls[i].inFront
    /\ (hist = <<22>>) => printed = <<"2", "1">>
    /\ (hist = <<23>>) => printed = <<"0">>

\* The tree the layered grammar gives to a chain  a o1 b o2 c ...  : the
\* layers, loosest first, are or, and, equality, comparison, term, factor;
\* every layer is a left-associative repetition of the next one, so the root
\* is the last operator of the loosest layer that occurs.
Layer(kind) ==
    CASE kind = "Or" -> 1
      [] kind = "And" -> 2
      [] kind \in {"EqualEqual", "BangEqual"} -> 3
      [] kind \in {"Greater", "GreaterEqual", "Less", "LessEqual"} -> 4
      [] kind \in {"Plus", "Minus"} -> 5
      [] kind \in {"Star", "Slash"} -> 6

OperatorsOf(ts) == [i \in 1..((Len(ts) - 3) \div 2) |-> ts[2 * i].kind]

RootOperator(os, lo, hi) ==
    CHOOSE j \in lo..(hi - 1) :
        /\ \A i \in lo..(hi - 1) : Layer(os[j]) <= Layer(os[i])
        /\ \A i \in (j + 1)..(hi - 1) : Layer(os[j]) < Layer(os[i])

GrammarNode(kind, left, right) ==
    IF Layer(kind) <= 2
    THEN Logical(left, parse_token_as_logical_op(Token(kind)), right)
    ELSE Binary(left, parse_token_as_binary_op(Token(kind)), right)

RECURSIVE GrammarTree(_, _, _)
GrammarSplit(os, lo, hi, j) ==
    GrammarNode(os[j], GrammarTree(os, lo, j), GrammarTree(os, j + 1, hi))

GrammarTree(os, lo, hi) ==
    IF lo = hi THEN Identifier(NoId, OperandNames[lo])
    ELSE GrammarSplit(os, lo, hi, RootOperator(os, lo, hi))

ParsedAs(statements) == parsed.done /\ parsed.ok /\ parsed.val = statements

ChainParsedByGrammar ==
    ParsedAs(<<ExpressionStatement(
                GrammarTree(OperatorsOf(tokens), 1, Len(OperatorsOf(tokens)) + 1))>>)

IdA == Identifier(NoId, "a")
IdB == Identifier(NoId, "b")
IdC == Identifier(NoId, "c")

C18_LogicalOperands ==
    parsed.done =>
        /\ (tokens \in ChainSources
              /\ \E i \in 1..Len(OperatorsOf(tokens)) :
                    OperatorsOf(tokens)[i] \in LogicalOperatorKinds)
            => ChainParsedByGrammar
        /\ tokens = ChainSource(<<"Or", "And">>)
            => ParsedAs(<<ExpressionStatement(
                            Logical(IdA, "or", Logical(IdB, "and", IdC)))>>)
        /\ tokens = ChainSource(<<"And", "EqualEqual">>)
            => ParsedAs(<<ExpressionStatement(
                            Logical(IdA, "and", Binary(IdB, "==", IdC)))>>)

\* print op1 ... opn x;  as the grammar `unary := ( '!' | '-' ) unary | call`
\* reads it: Unary(op1, ... Unary(opn, x))
UnaryOperatorsOf(ts) == [i \in 1..(Len(ts) - 4) |-> ts[i + 1]]
UnaryOperandOf(ts) == primary(<<ts[Len(ts) - 2]>>).val

RECURSIVE UnaryTree(_, _, _)
UnaryTree(ops, i, x) ==
    IF i > Len(ops) THEN x
    ELSE Unary(parse_token_as_unary_op(ops[i]), UnaryTree(ops, i + 1, x))

\* C19: the operand of `!` or `-` is itself a unary expression, so a value
\* under any number of prefix operators is parsed, `!!x` and `- -x` into
\* Unary(op, Unary(op, x)); `print !!x;` prints true exactly when x is truthy
C19_UnaryNests ==
    (parsed.done /\ tokens \in UnarySources) =>
        /\ ParsedAs(<<PrintStatement(
                UnaryTree(UnaryOperatorsOf(tokens), 1, UnaryOperandOf(tokens)))>>)
        /\ (hist = <<0>> /\ Len(tokens) = 6
               /\ tokens[2].kind = "Bang" /\ tokens[3].kind = "Bang")
            => printed = <<IF Truthy(UnaryOperandOf(tokens)) THEN "true" ELSE "false">>

\* C20: `return;` is parsed into a return statement whose value is the Nil
\* literal, and `fun f() { return; } print f();` prints nil
C20_BareReturn ==
    (parsed.done /\ tokens = FunReturnSource(<<>>)) =>
        /\ ParsedAs(<<FunDeclaration("f", <<>>, <<ReturnStatement(Nil)>>),
                      PrintStatement(Call(Identifier(NoId, "f"), <<>>))>>)
        /\ hist = <<0>> => (outcome = Ok(Nil) /\ printed = <<"nil">>)

\* the 1-based line of the character at position pos of the source text: one
\* more than the number of newlines before it
RECURSIVE NewlinesBefore(_, _)
NewlinesBefore(text, pos) ==
    IF pos <= 1 THEN 0
    ELSE (IF text[pos - 1] = "\n" THEN 1 ELSE 0) + NewlinesBefore(text, pos - 1)

LineOfFirst(item) == 1 + NewlinesBefore(source, Len(source) - item.first + 1)

\* C21: every token the scanner gives (Eof has no first character and is left
\* out) carries the line of its first character, newlines that end a comment
\* counted; a string over several lines carries the line of its opening
\* quote and so does the error of an unterminated string
C21_TokenLineOfFirstCharacter ==
    \A i \in 1..Len(yielded) :
        \/ yielded[i].item.t = "Ok" /\ yielded[i].item.kind # "Eof"
        \/ yielded[i].item.t = "Err" /\ yielded[i].item.msg = "Unterminated string"
        => yielded[i].item.line = LineOfFirst(yielded[i].item)

\* the kinds of the tokens of the lexemes ls, and Eof from then on
KindExpected(ls, i) == IF i <= Len(ls) THEN ls[i].kind ELSE "Eof"

OnlyNext == \A i \in 1..Len(yielded) : yielded[i].op = "next"

\* the i-th pull gave the token of the i-th lexeme, of the same text
YieldsLexemes(ls) ==
    \A i \in 1..Len(yielded) :
        /\ yielded[i].item.t = "Ok"
        /\ yielded[i].item.kind = KindExpected(ls, i)
        /\ i <= Len(ls) /\ ls[i].kind # "String"
            => yielded[i].item.lexeme = ls[i].text

\* C22: a source text made of lexemes gives one token for each lexeme, in
\* order and of the lexeme's kind, and then Eof; `==`, `!=`, `<=`, `>=` are
\* one token each and nothing is left of them for a second token
C22_OneTokenPerLexeme ==
    \A ls \in LexemeSeqs :
        (source = LexemeText(ls, 1) /\ OnlyNext) => YieldsLexemes(ls)

IsEof(y) == y.item.t = "Ok" /\ y.item.kind = "Eof"

EofYielded == \E i \in 1..Len(yielded) : IsEof(yielded[i])

\* C23: pulling the scanner again and again gives Eof in the end; every pull
\* gives an item (a token or an error, never the end of the iteration and
\* never an abort), and after the first Eof every pull gives Eof
C23_EndsWithEof ==
    /\ [](\A i \in 1..Len(yielded) :
            /\ yielded[i].item.t \in {"Ok", "Err"}
            /\ \A j \in 1..(i - 1) : IsEof(yielded[j]) => IsEof(yielded[i]))
    /\ <>EofYielded

\* C24: what peek() returns is returned again by the call that follows it,
\* be it another peek() or the next(); so for a token and so for an error
C24_PeekIdempotent ==
    \A i \in 1..(Len(yielded) - 1) :
        yielded[i].op = "peek" => yielded[i + 1].item = yielded[i].item

\* C30: no pull aborts the process, whatever the text: digits and dots that
\* are no number give tokens or an error; and the pull after the error for an
\* unknown character gives an item that starts behind that character
C30_PullNeverAborts ==
    \A i \in 1..Len(yielded) :
        /\ yielded[i].item.t \in {"Ok", "Err"}
        /\ (yielded[i].item.msg = "Unknown character" /\ i < Len(yielded))
            => yielded[i + 1].item.first < yielded[i].item.first

\* the number of scopes between the innermost scope and the nearest scope
\* that holds name: 0 for the innermost
Declares(scopes, name) == {i \in 1..Len(scopes) : name \in DOMAIN scopes[i]}
Max(S) == CHOOSE x \in S : \A y \in S : y <= x
Distance(scopes, name) == Len(scopes) - Max(Declares(scopes, name))

\* C25: an identifier or assignment whose name is found in the scope stack
\* gets, for its id, the distance from the innermost scope to the nearest
\* scope declaring the name; a name found in no scope gets no record
C25_ResolvedDistance ==
    \A i \in 1..Len(resolution.events) :
        LET ev == resolution.events[i]
        IN  IF Declares(ev.scopes, ev.name) = {}
            THEN ev.recorded = <<>>
            ELSE ev.out.kind = "Ok"
                    => ev.recorded = <<Distance(ev.scopes, ev.name)>>

\* an identifier is read while the innermost scope holds it as declared and
\* not yet defined: the read is in the variable's own initializer
ReadsOwnInitializer(ev) ==
    /\ ev.k = "Identifier"
    /\ Len(ev.scopes) > 0
    /\ ev.name \in DOMAIN ev.scopes[Len(ev.scopes)]
    /\ ~ev.scopes[Len(ev.scopes)][ev.name]

\* C26: resolve returns the error "Unable to read local variable in its own
\* initializer" exactly when, in a scope that is not the global one, the
\* initializer of a variable reads that variable; a read after the
\* declaration is no error
C26_OwnInitializerError ==
    resolution.done =>
        ((resolution.out.kind = "Errored"
            /\ resolution.out.msg = "Unable to read local variable in its own initializer")
         <=> \E i \in 1..Len(resolution.events) :
                ReadsOwnInitializer(resolution.events[i]))

\* C27: a successful assignment `x = v` to a declared name changes exactly one
\* binding: the binding of x in the nearest frame of the chain that declares
\* x (for a depth-scoped assignment, the nearest from the resolved depth
\* outwards) becomes v, and every other binding of every frame of the chain,
\* same-named bindings of x included, is as before; PAssignShadow therefore
\* prints 3, 1 and 7.
Nearest(bs, depth) ==
    CHOOSE i \in (depth + 1)..Len(bs) :
        bs[i] # Undeclared /\ \A j \in (depth + 1)..(i - 1) : bs[j] = Undeclared

C27_AssignChangesOneBinding ==
    /\ \A i \in 1..Len(log.assigns) :
         LET ev == log.assigns[i]
         IN  (/\ ev.out.kind = "Ok"
              /\ \E j \in (ev.depth + 1)..Len(ev.before) : ev.before[j] # Undeclared)
             => /\ ev.after = [ev.before EXCEPT ![Nearest(ev.before, ev.depth)] = ev.value]
                /\ ev.othersKept
    /\ hist = <<24>> => printed = <<"3", "1", "7">>

\* C29: an error raised by a sub-expression of a comma expression is the
\* result of the comma expression, and no sub-expression is evaluated after
\* the one that failed.
C29_CommaErrorPropagates ==
    \A i \in 1..Len(log.commas) :
        LET ev == log.commas[i]
        IN  \A j \in 1..Len(ev.evaluated) :
                ev.evaluated[j].out.kind = "Errored"
                => /\ ev.out = ev.evaluated[j].out
                   /\ j = Len(ev.evaluated)

\* C28: `!=` is the negation of `==`: whenever `l == r` gives a boolean for
\* the operand values l and r, `l != r` gives the opposite boolean (so
\* `nil != nil` is false, `nil != 0` and `0 != nil` are true).
C28_NotEqualNegatesEqual ==
    \A i \in 1..Len(log.binops) :
        LET ev == log.binops[i]
        IN  (/\ ev.op = "!="
             /\ binary_operation(ev.l, "==", ev.r).kind = "Ok")
            => ev.out = Ok(LiteralBoolean(~binary_operation(ev.l, "==", ev.r).val.b))

====
